---- MODULE Spec2Model ----
(***************************************************************************)
(* Librarian AI: a state-machine model of the LLM router, the HTTP upload  *)
(* and task endpoints, the authentication dependencies, the Celery         *)
(* document-processing jobs, the task status endpoint, the vector          *)
(* Retriever, the text chunker, the DocumentProcessor (embedding, health   *)
(* snapshot, process_document), the file loader's cache, the archive       *)
(* extractors, the initialization and scoped use of LLM providers, the     *)
(* project analyzer, the Embedder's cache, LLMRouterPro, the fallback      *)
(* dummy provider and the worker of the asynchronous endpoint.  Every      *)
(* subsystem has its own variables and its own specifications; a           *)
(* specification leaves the other subsystems' variables at their initial   *)
(* values.                                                                 *)
(***************************************************************************)
EXTENDS Integers, Sequences, FiniteSets, TLC

VARIABLES
    \* llm/llm_router.py
    default_provider,   \* LLMRouter.default_provider
    routerCall,         \* the last LLMRouter.generate call: its inputs, what the
                        \* provider calls did, and how generate() ended
    \* api/files.py, api/documents.py, api/process_router.py, api/tasks.py, auth/
    disk,               \* the temporary files that exist on disk
    taskQueue,          \* the jobs handed to the task queue (process_document_async.delay)
    bgTasks,            \* temp paths whose clean-up a request scheduled (BackgroundTasks)
    http,               \* the last HTTP request and the response it got
    \* core/tools/async_tasks.py, tests/document_processor.py
    jobs,               \* per task id: the job's message, attempt and result-backend entry
    \* api/status.py
    backend,            \* the result-backend entry AsyncResult(task_id) reads
    statusResp,         \* the last response of GET /status/{task_id}
    \* core/processor/retriever.py
    indexFile,          \* the index file: whether it exists, and its vectors
    metaFile,           \* the metadata pickle: whether it exists, and its records
    index,              \* Retriever.index: the vectors held in memory
    metadata,           \* Retriever.metadata
    update,             \* the update_index call in progress, or the last one's outcome
    query_cache,        \* Retriever._cache: per cache key, the results stored
    retrieved,          \* the last retrieve call
    writers,            \* concurrent update_index calls, per caller
    \* core/parser/chunker.py
    learning_model,     \* TextChunker.learning_model
    chunkCall,          \* the last TextChunker.chunk call: its arguments and how it ended
    \* core/1/processor.py: _embed_chunks_safe
    cache,              \* the embedding cache: per key, the stored vector and metadata
    cache_healthy,      \* health_status.cache
    embed,              \* the _embed_chunks_safe run: its chunks, position and yielded results
    \* core/tools/loader.py
    _cache,             \* FileLoader._cache, in insertion order
    _cache_hits,        \* FileLoader._cache_hits
    loadCall,           \* the last load_file call and what it did to the cache
    \* core/tools/archive_extractors.py
    extract,            \* the extract_from_zip / extract_from_tar call in progress, or its result
    \* core/1/processor.py: process_document and the health snapshot
    now,                \* datetime.utcnow(), in seconds since the processor was constructed
    ticks,              \* how often the clock advanced
    health_status,      \* DocumentProcessor.health_status
    probes,             \* the probes of the last refresh: what each dependency did and the attempts made
    _processing_lock,   \* DocumentProcessor._processing_lock: its holder, or free
    queue_size,         \* the gauge metrics['queue_size']
    calls,              \* the process_document calls, per caller
    \* llm/providers/base_llm.py
    llm,                \* the class of the provider instance
    _initialized,       \* BaseLLM._initialized
    performed,          \* how many times _async_init ran to its end
    initCalls,          \* the initialize() calls, per task
    scope,              \* the scoped acquisition llm.context() of one task, and the close() calls after it
    \* agents/project_analyzer/analyzer.py
    AI_PROVIDER,        \* config.AI_PROVIDER, lower-cased
    ai_cache,           \* the table ai_cache: per prompt (hash), the stored response
    aiCall,             \* the last get_ai_response call
    analysis,           \* the last analyze_project run
    tmp_dirs,           \* the temp directories that exist
    \* tools/embedder.py
    embedder,           \* the lru_cache of Embedder._encode_sync: cached texts, hits, misses
    embedded,           \* per text, how often it was embedded through generate() since the cache was cleared
    generated,          \* the last generate() call
    \* llm/llm_router_pro.py
    pro,                \* the LLMRouterPro: connected models, cache_enabled, default_model, metrics
    proCall,            \* the last LLMRouterPro.ask call
    \* llm/providers/fallback_dummy.py
    dummy,              \* the call made to the FallbackDummyProvider and its result
    \* the Celery worker of the jobs queued by api/process_router.py
    workerLoads         \* the reads of queued temp paths by the worker: the path and whether the file was there

routerVars == <<default_provider, routerCall>>
apiVars == <<disk, taskQueue, bgTasks, http>>
jobVars == <<jobs>>
statusVars == <<backend, statusResp>>
retrieverVars == <<indexFile, metaFile, index, metadata, update, query_cache, retrieved, writers>>
chunkerVars == <<learning_model, chunkCall>>
embedVars == <<cache, cache_healthy, embed>>
loaderVars == <<_cache, _cache_hits, loadCall>>
archiveVars == <<extract>>
docVars == <<now, ticks, health_status, probes, _processing_lock, queue_size, calls>>
llmVars == <<llm, _initialized, performed, initCalls, scope>>
analyzerVars == <<AI_PROVIDER, ai_cache, aiCall, analysis, tmp_dirs>>
embedderVars == <<embedder, embedded, generated>>
proVars == <<pro, proCall>>
dummyVars == <<dummy>>
workerVars == <<workerLoads>>

vars == <<default_provider, routerCall, disk, taskQueue, bgTasks, http, jobs,
          backend, statusResp, indexFile, metaFile, index, metadata, update,
          query_cache, retrieved, writers, learning_model, chunkCall, cache,
          cache_healthy, embed, _cache, _cache_hits, loadCall, extract, now,
          ticks, health_status, probes, _processing_lock, queue_size, calls,
          llm, _initialized, performed, initCalls, scope, AI_PROVIDER,
          ai_cache, aiCall, analysis, tmp_dirs, embedder, embedded, generated,
          pro, proCall, dummy, workerLoads>>

notRouterVars == <<apiVars, jobVars, statusVars, retrieverVars, chunkerVars,
        embedVars, loaderVars, archiveVars, docVars, llmVars,
        analyzerVars, embedderVars, proVars, dummyVars, workerVars>>
notApiVars == <<routerVars, jobVars, statusVars, retrieverVars, chunkerVars,
        embedVars, loaderVars, archiveVars, docVars, llmVars,
        analyzerVars, embedderVars, proVars, dummyVars, workerVars>>
notJobVars == <<routerVars, apiVars, statusVars, retrieverVars, chunkerVars,
        embedVars, loaderVars, archiveVars, docVars, llmVars,
        analyzerVars, embedderVars, proVars, dummyVars, workerVars>>
notStatusVars == <<routerVars, apiVars, jobVars, retrieverVars, chunkerVars,
        embedVars, loaderVars, archiveVars, docVars, llmVars,
        analyzerVars, embedderVars, proVars, dummyVars, workerVars>>
notRetrieverVars == <<routerVars, apiVars, jobVars, statusVars, chunkerVars,
        embedVars, loaderVars, archiveVars, docVars, llmVars,
        analyzerVars, embedderVars, proVars, dummyVars, workerVars>>
notChunkerVars == <<routerVars, apiVars, jobVars, statusVars, retrieverVars,
        embedVars, loaderVars, archiveVars, docVars, llmVars,
        analyzerVars, embedderVars, proVars, dummyVars, workerVars>>
notEmbedVars == <<routerVars, apiVars, jobVars, statusVars, retrieverVars,
        chunkerVars, loaderVars, archiveVars, docVars, llmVars,
        analyzerVars, embedderVars, proVars, dummyVars, workerVars>>
notLoaderVars == <<routerVars, apiVars, jobVars, statusVars, retrieverVars,
        chunkerVars, embedVars, archiveVars, docVars, llmVars,
        analyzerVars, embedderVars, proVars, dummyVars, workerVars>>
notArchiveVars == <<routerVars, apiVars, jobVars, statusVars, retrieverVars,
        chunkerVars, embedVars, loaderVars, docVars, llmVars,
        analyzerVars, embedderVars, proVars, dummyVars, workerVars>>
notDocVars == <<routerVars, apiVars, jobVars, statusVars, retrieverVars,
        chunkerVars, embedVars, loaderVars, archiveVars, llmVars,
        analyzerVars, embedderVars, proVars, dummyVars, workerVars>>
notLlmVars == <<routerVars, apiVars, jobVars, statusVars, retrieverVars,
        chunkerVars, embedVars, loaderVars, archiveVars, docVars,
        analyzerVars, embedderVars, proVars, dummyVars, workerVars>>
notAnalyzerVars == <<routerVars, apiVars, jobVars, statusVars, retrieverVars,
        chunkerVars, embedVars, loaderVars, archiveVars, docVars,
        llmVars, embedderVars, proVars, dummyVars, workerVars>>
notEmbedderVars == <<routerVars, apiVars, jobVars, statusVars, retrieverVars,
        chunkerVars, embedVars, loaderVars, archiveVars, docVars,
        llmVars, analyzerVars, proVars, dummyVars, workerVars>>
notProVars == <<routerVars, apiVars, jobVars, statusVars, retrieverVars,
        chunkerVars, embedVars, loaderVars, archiveVars, docVars,
        llmVars, analyzerVars, embedderVars, dummyVars, workerVars>>
notDummyVars == <<routerVars, apiVars, jobVars, statusVars, retrieverVars,
        chunkerVars, embedVars, loaderVars, archiveVars, docVars,
        llmVars, analyzerVars, embedderVars, proVars, workerVars>>
notWorkerVars == <<routerVars, apiVars, jobVars, statusVars, retrieverVars,
        chunkerVars, embedVars, loaderVars, archiveVars, docVars,
        llmVars, analyzerVars, embedderVars, proVars, dummyVars>>
None == "None"

(***************************************************************************)
(* llm/llm_router.py                                                       *)
(***************************************************************************)

\* class LLMProvider(str, Enum)
LLMProvider == {"openrouter", "gigachat", "yandexgpt", "mistral", "dolphin"}

GIGACHAT == "gigachat"

\* Prompts and keyword arguments a caller passes (kwargs: none, or some).
Prompts == {"p1", "p2"}
KwargsChoices == {"nokwargs", "kwargs"}

\* What one provider call does: it returns the provider's text, or raises an
\* Exception (requests errors, a KeyError on the reply's JSON, a CUDA error...).
CallOutcomes == {"ok", "raise"}

\* The text provider p returns for a prompt called with the given kwargs.
ProviderResponse(p, prompt, kw) == <<"response", p, prompt, kw>>

\* The literal returned when the fallback fails too (the source's Russian
\* sentence "the request could not be processed", here in Latin letters).
FallbackFailure == "Ne udalos obrabotat zapros."

\* A mutant of _fallback: the fallback's own failure is not caught.
FallbackUncaught(prompt, fallbackOutcome) ==
    IF fallbackOutcome = "ok"
    THEN [kind |-> "return", value |-> ProviderResponse(GIGACHAT, prompt, "nokwargs"),
          log |-> <<"warning">>]
    ELSE [kind |-> "raise", value |-> "fallback exception", log |-> <<"warning">>]

\* LLMRouter._fallback(prompt): GigaChat, called without the caller's kwargs.
_fallback(prompt, fallbackOutcome) ==
    IF fallbackOutcome = "ok"
    THEN [kind |-> "return", value |-> ProviderResponse(GIGACHAT, prompt, "nokwargs"),
          log |-> <<"warning">>]
    ELSE [kind |-> "return", value |-> FallbackFailure,
          log |-> <<"warning", "critical">>]

\* LLMRouter.generate(prompt, provider, **kwargs); dflt is self.default_provider.
generate(dflt, prompt, provider, kw, primaryOutcome, fallbackOutcome) ==
    LET chosen == IF provider = None THEN dflt ELSE provider
    IN  IF primaryOutcome = "ok"
        THEN [kind |-> "return", value |-> ProviderResponse(chosen, prompt, kw),
              log |-> <<"info">>]
        ELSE LET fb == _fallback(prompt, fallbackOutcome)
             IN  [fb EXCEPT !.log = <<"info", "error">> \o fb.log]

NoRouterCall == [prompt |-> None, provider |-> None, kw |-> "nokwargs",
                 primary |-> "ok", fallback |-> "ok", calls |-> 0,
                 result |-> [kind |-> None, value |-> None, log |-> <<>>]]

\* LLMRouter.__init__(default_provider)
RouterStart ==
    /\ default_provider \in LLMProvider
    /\ routerCall = NoRouterCall

\* One call of generate().  The fallback's outcome matters only when the primary
\* call raised; it is recorded as "ok" when the fallback was not called.
Generate ==
    \E prompt \in Prompts, provider \in LLMProvider \cup {None}, kw \in KwargsChoices,
       primaryOutcome \in CallOutcomes, fallbackOutcome \in CallOutcomes :
        /\ primaryOutcome = "ok" => fallbackOutcome = "ok"
        /\ routerCall' = [prompt |-> prompt, provider |-> provider, kw |-> kw,
                          primary |-> primaryOutcome, fallback |-> fallbackOutcome,
                          calls |-> IF primaryOutcome = "ok" THEN 1 ELSE 2,
                          result |-> generate(default_provider, prompt, provider, kw,
                                              primaryOutcome, fallbackOutcome)]
        /\ UNCHANGED default_provider
        /\ UNCHANGED notRouterVars

\* C1: generate() never propagates an exception of a provider call: when the
\* selected (or default) provider's call raises, it returns the GigaChat
\* fallback's response, and when the fallback raises too, the fixed literal.
C1_GenerateNeverRaises ==
    routerCall.calls > 0 =>
        /\ routerCall.result.kind = "return"
        /\ (routerCall.primary = "ok") =>
              routerCall.result.value =
                  ProviderResponse(IF routerCall.provider = None THEN default_provider
                                   ELSE routerCall.provider,
                                   routerCall.prompt, routerCall.kw)
        /\ (routerCall.primary = "raise" /\ routerCall.fallback = "ok") =>
              routerCall.result.value =
                  ProviderResponse(GIGACHAT, routerCall.prompt, "nokwargs")
        /\ (routerCall.primary = "raise" /\ routerCall.fallback = "raise") =>
              /\ routerCall.result.value = FallbackFailure
              /\ routerCall.result.log[Len(routerCall.result.log)] = "critical"

\* A call whose provider and fallback both raised has returned the literal.
C1_Witness ==
    /\ routerCall.primary = "raise"
    /\ routerCall.fallback = "raise"
    /\ routerCall.provider = "openrouter"
    /\ routerCall.result.kind = "return"
    /\ routerCall.result.value = FallbackFailure


(***************************************************************************)
(* The uploads a client sends: a file name (stem and extension), the       *)
(* declared content type, the size in bytes and whether the bytes decode   *)
(* as UTF-8 text.                                                          *)
(***************************************************************************)

\* api/files.py: ALLOWED_MIME_TYPES
ALLOWED_MIME_TYPES == {
    "application/pdf",
    "application/vnd.openxmlformats-officedocument.wordprocessingml.document",
    "application/vnd.openxmlformats-officedocument.spreadsheetml.sheet",
    "text/plain", "application/zip", "application/x-tar",
    "application/x-rar-compressed"}

\* api/files.py: MAX_FILE_SIZE_MB
MAX_FILE_SIZE_MB == 50

\* config/config.py: Settings.MAX_FILE_SIZE and Settings.ALLOWED_EXTENSIONS
MAX_FILE_SIZE == 10000000
ALLOWED_EXTENSIONS == {".pdf", ".docx", ".txt"}

FilesMaxBytes == MAX_FILE_SIZE_MB * 1024 * 1024

Uploads == {
    [stem |-> "a", ext |-> ".txt", content_type |-> "text/plain",
     size |-> 1024, utf8 |-> TRUE],
    [stem |-> "b", ext |-> ".pdf", content_type |-> "application/pdf",
     size |-> MAX_FILE_SIZE + 1, utf8 |-> FALSE],
    [stem |-> "c", ext |-> ".exe", content_type |-> "application/octet-stream",
     size |-> 1024, utf8 |-> FALSE],
    [stem |-> "d", ext |-> ".TXT", content_type |-> "text/plain",
     size |-> FilesMaxBytes + 1, utf8 |-> TRUE],
    [stem |-> "e", ext |-> ".docx",
     content_type |-> "application/vnd.openxmlformats-officedocument.wordprocessingml.document",
     size |-> MAX_FILE_SIZE, utf8 |-> FALSE]}

\* What a step that touches the file system or a library does.
Outcomes == {"ok", "raise"}

\* The names tempfile.NamedTemporaryFile and uuid4 can hand out: a name is
\* never one of a file that exists.
MaxTempNames == 2
TempNames == 1..MaxTempNames

\* A path: its directory, the generated part of its name (0: none) and the
\* part taken from the upload's file name.
NamedTemporaryFile(n, suffix) == [dir |-> "tmp", n |-> n, name |-> <<"", suffix>>]

FreeNames(dir, d) == {n \in TempNames : \A p \in d : ~(p.dir = dir /\ p.n = n)}

\* api/files.py: validate_file(file)
validate_file(file) ==
    IF file.content_type \notin ALLOWED_MIME_TYPES
    THEN [raised |-> TRUE, status |-> 400, detail |-> "mime type not allowed"]
    ELSE IF file.size > MAX_FILE_SIZE_MB * 1024 * 1024
    THEN [raised |-> TRUE, status |-> 400, detail |-> "file too large"]
    ELSE [raised |-> FALSE, status |-> 200, detail |-> None]

\* The success payload of the files router (loader.load_file's result).
LoadResult(file) ==
    [filename |-> <<file.stem, file.ext>>, size_kb |-> file.size \div 1024,
     mime_type |-> file.content_type]

\* api/files.py: upload_file(file).  n is the temp name, loadOutcome what
\* loader.load_file does, d the disk.  Returns the response, the disk
\* afterwards and the temp file.
upload_file(file, n, loadOutcome, d) ==
    LET v == validate_file(file)
        tmp_path == NamedTemporaryFile(n, file.ext)
    IN  IF v.raised
        THEN [status |-> v.status, body |-> v.detail, disk |-> d, tmp |-> {}]
        ELSE IF loadOutcome = "ok"
        THEN [status |-> 200, body |-> LoadResult(file),
              disk |-> (d \cup {tmp_path}) \ {tmp_path}, tmp |-> {tmp_path}]
        ELSE [status |-> 500, body |-> "file processing error",
              disk |-> (d \cup {tmp_path}) \ {tmp_path}, tmp |-> {tmp_path}]

\* api/files.py: upload_batch.process_one(file): validate_file is outside the
\* try; only loader.load_file's failure becomes an error entry.
process_one(file, n, loadOutcome) ==
    LET v == validate_file(file)
        tmp_path == NamedTemporaryFile(n, file.ext)
    IN  IF v.raised
        THEN [raised |-> TRUE, status |-> v.status, entry |-> v.detail,
              tmp |-> {}, left |-> {}]
        ELSE IF loadOutcome = "ok"
        THEN [raised |-> FALSE, status |-> 200, entry |-> LoadResult(file),
              tmp |-> {tmp_path}, left |-> {}]
        ELSE [raised |-> FALSE, status |-> 200,
              entry |-> [filename |-> <<file.stem, file.ext>>, error |-> "load error"],
              tmp |-> {tmp_path}, left |-> {}]

\* api/files.py: upload_batch(files): asyncio.gather over process_one.  An
\* exception of one item ends the request with that exception (first is the
\* item whose exception gather saw first; 0 when no item raised) while the
\* other items still run to their end.
upload_batch(files, names, loads, first, d) ==
    LET one(i) == process_one(files[i], names[i], loads[i])
        left == UNION {one(i).left : i \in 1..Len(files)}
        tmps == UNION {one(i).tmp : i \in 1..Len(files)}
    IN  IF first # 0
        THEN [status |-> one(first).status, body |-> one(first).entry,
              disk |-> d \cup left, tmp |-> tmps]
        ELSE [status |-> 200,
              body |-> [files_processed |-> Len(files),
                        details |-> [i \in 1..Len(files) |-> one(i).entry]],
              disk |-> d \cup left, tmp |-> tmps]

\* core/1/parser.py: parse_text_file(filepath): the text, or an error record
\* when the file cannot be read as UTF-8.
parse_text_file(file) ==
    IF file.utf8
    THEN [text |-> "text", meta |-> [filename |-> <<file.stem, file.ext>>]]
    ELSE [error |-> "decode error"]

\* api/documents.py: upload_document(file).  processOutcome is what the
\* embedding and the two saves do.
upload_document(file, processOutcome, d) ==
    LET temp_path == [dir |-> "temp", n |-> 0, name |-> <<file.stem, file.ext>>]
        parsed == parse_text_file(file)
    IN  IF "text" \notin DOMAIN parsed
        THEN [status |-> 200, body |-> [error |-> parsed.error],
              disk |-> d \cup {temp_path}, tmp |-> {temp_path}]
        ELSE IF processOutcome = "raise"
        THEN [status |-> 500, body |-> "Internal Server Error",
              disk |-> d \cup {temp_path}, tmp |-> {temp_path}]
        ELSE [status |-> 200,
              body |-> [status |-> "ok", filename |-> parsed.meta.filename],
              disk |-> (d \cup {temp_path}) \ {temp_path}, tmp |-> {temp_path}]

\* str.lower() on a file extension.
Lower(ext) == IF ext = ".TXT" THEN ".txt" ELSE ext

\* api/process_router.py: process_document(file).  processOutcome is what the
\* write, the text extraction and the processor do.  Returns the response, the
\* disk, the clean-ups scheduled and the temp file.
process_document(file, n, processOutcome, d) ==
    LET file_ext == Lower(file.ext)
        temp_path == [dir |-> "uuid", n |-> n, name |-> <<"", file_ext>>]
    IN  IF file.size > MAX_FILE_SIZE
        THEN [status |-> 413, body |-> "File too large", disk |-> d,
              scheduled |-> {}, tmp |-> {}]
        ELSE IF file_ext \notin ALLOWED_EXTENSIONS
        THEN [status |-> 415, body |-> "Unsupported file type", disk |-> d,
              scheduled |-> {}, tmp |-> {}]
        ELSE IF processOutcome = "raise"
        THEN [status |-> 500, body |-> "Document processing failed",
              disk |-> d \cup {temp_path}, scheduled |-> {temp_path},
              tmp |-> {temp_path}]
        ELSE [status |-> 202, body |-> [session_id |-> "session"],
              disk |-> d \cup {temp_path}, scheduled |-> {temp_path},
              tmp |-> {temp_path}]

\* api/process_router.py: async_process_document(file): no check of the size
\* or the extension; the temp path goes to process_document_async.delay.
\* delayOutcome is what the write and delay() do.  q is the task queue; a job
\* is identified by its path.
async_process_document(file, n, delayOutcome, d, q) ==
    LET file_ext == Lower(file.ext)
        temp_path == [dir |-> "uuid", n |-> n, name |-> <<"", file_ext>>]
    IN  IF delayOutcome = "raise"
        THEN [status |-> 500, body |-> "Failed to start async document processing",
              disk |-> d \cup {temp_path}, scheduled |-> {temp_path},
              tmp |-> {temp_path}, queue |-> q]
        ELSE [status |-> 202, body |-> [task_id |-> temp_path],
              disk |-> d \cup {temp_path}, scheduled |-> {temp_path},
              tmp |-> {temp_path},
              queue |-> q \cup {[path |-> temp_path, file |-> file]}]

\* What the task-queue helpers get_task_status(task_id) and cancel_task(task_id)
\* hand to the routes of api/tasks.py: nothing (a falsy value), a status
\* dictionary, or an exception.
HelperResults == {"none", "info", "raise"}

\* api/tasks.py: get_task_status_route(task_id).  The HTTPException(404) is
\* raised inside the try whose handler catches Exception, the base class of
\* HTTPException, and answers 500.
get_task_status_route(task_id, helper) ==
    IF helper = "raise"
    THEN [status |-> 500, body |-> "Failed to fetch task status"]
    ELSE IF helper = "none"
    THEN [status |-> 500, body |-> "Failed to fetch task status: 404: Task not found"]
    ELSE [status |-> 200, body |-> [task_id |-> task_id]]

\* api/tasks.py: cancel_task_route(task_id): whatever cancel_task returns.
cancel_task_route(task_id, helper) ==
    IF helper = "raise"
    THEN [status |-> 500, body |-> "Failed to cancel task"]
    ELSE [status |-> 200, body |-> helper]

(***************************************************************************)
(* auth/jwt_handler.py, auth/oauth2.py, auth/dependencies.py               *)
(***************************************************************************)

\* auth/jwt_handler.py: SECRET_KEY
SECRET_KEY == "your-secret-key"

Roles == {"admin", "user", "Admin", None}
Subjects == {"u1", "u2"}

\* A bearer token: the claims it carries (role None: no role claim), the key it
\* was signed with, whether its exp claim is in the past and whether it is a
\* well-formed JWT at all.  NoToken: the request has no Authorization header.
NoToken == [payload |-> [sub |-> None, role |-> None], key |-> None, expired |-> FALSE,
            wellformed |-> FALSE, present |-> FALSE]

Tokens ==
    {[payload |-> [sub |-> s, role |-> r], key |-> k, expired |-> e,
      wellformed |-> w, present |-> TRUE] :
        s \in Subjects, r \in Roles, k \in {SECRET_KEY, "another-key"}, e \in BOOLEAN, w \in BOOLEAN}
    \cup {NoToken}

\* Python's None where a dictionary of claims is expected.
NoClaims == [none |-> TRUE]

\* A mutant of verify_token: the payload is decoded without the signature check.
verify_token_unsigned(token) ==
    IF token.wellformed /\ ~token.expired THEN token.payload ELSE NoClaims

\* auth/jwt_handler.py: verify_token(token): jwt.decode's payload, or None on
\* any PyJWTError (bad signature, expired, malformed).
verify_token(token) ==
    IF token.wellformed /\ token.key = SECRET_KEY /\ ~token.expired
    THEN token.payload
    ELSE NoClaims

\* auth/oauth2.py: oauth2_scheme = OAuth2PasswordBearer(...): with no bearer
\* token the scheme itself answers 401 (auto_error is left at its default).
oauth2_scheme(token) ==
    IF token.present
    THEN [raised |-> FALSE, status |-> 200]
    ELSE [raised |-> TRUE, status |-> 401]

\* auth/oauth2.py: get_current_user(token)
get_current_user(token) ==
    LET scheme == oauth2_scheme(token)
        payload == verify_token(token)
    IN  IF scheme.raised
        THEN [raised |-> TRUE, status |-> scheme.status, user |-> NoClaims]
        ELSE IF payload = NoClaims
        THEN [raised |-> TRUE, status |-> 401, user |-> NoClaims]
        ELSE [raised |-> FALSE, status |-> 200, user |-> payload]

\* auth/dependencies.py: get_admin_user(current_user)
get_admin_user(token) ==
    LET current == get_current_user(token)
    IN  IF current.raised
        THEN current
        ELSE IF current.user.role # "admin"
        THEN [raised |-> TRUE, status |-> 403, user |-> NoClaims]
        ELSE current

(***************************************************************************)
(* The HTTP server: one action per endpoint.                               *)
(***************************************************************************)

NoRequest == [endpoint |-> "none", req |-> <<>>, status |-> 0, body |-> None,
              tmp |-> {}]

ApiStart ==
    /\ disk = {}
    /\ taskQueue = {}
    /\ bgTasks = {}
    /\ http = NoRequest

\* POST /upload/ (files router).  The outcome of a step the request does not
\* reach is recorded as "ok", here and below.
UploadFile ==
    \E file \in Uploads, n \in FreeNames("tmp", disk), loadOutcome \in Outcomes :
        LET r == upload_file(file, n, loadOutcome, disk)
        IN  /\ validate_file(file).raised => loadOutcome = "ok"
            /\ http' = [endpoint |-> "upload_file",
                        req |-> <<file, loadOutcome>>,
                        status |-> r.status, body |-> r.body, tmp |-> r.tmp]
            /\ disk' = r.disk
            /\ UNCHANGED <<taskQueue, bgTasks>>
            /\ UNCHANGED notApiVars

\* POST /upload/ (documents router)
UploadDocument ==
    \E file \in Uploads, processOutcome \in Outcomes :
        LET r == upload_document(file, processOutcome, disk)
        IN  /\ http' = [endpoint |-> "upload_document",
                        req |-> <<file, processOutcome>>,
                        status |-> r.status, body |-> r.body, tmp |-> r.tmp]
            /\ disk' = r.disk
            /\ UNCHANGED <<taskQueue, bgTasks>>
            /\ UNCHANGED notApiVars

MaxBatch == 2

\* The items of a batch that end in an exception.
Raising(files, names, loads) ==
    {i \in 1..Len(files) : process_one(files[i], names[i], loads[i]).raised}

\* The k smallest names of a set of names, in order.
RECURSIVE FirstNames(_, _)
FirstNames(free, k) ==
    IF k = 0 \/ free = {} THEN <<>>
    ELSE LET n == CHOOSE x \in free : \A y \in free : x <= y
         IN  <<n>> \o FirstNames(free \ {n}, k - 1)

\* POST /upload/batch/: every item gets a temp name of its own.
UploadBatch ==
    \E len \in 1..MaxBatch :
      \E files \in [1..len -> Uploads], loads \in [1..len -> Outcomes] :
        LET names == FirstNames(FreeNames("tmp", disk), len)
        IN  /\ Len(names) = len
            /\ \A i \in 1..len : validate_file(files[i]).raised => loads[i] = "ok"
            /\ \E first \in IF Raising(files, names, loads) = {} THEN {0}
                            ELSE Raising(files, names, loads) :
                LET r == upload_batch(files, names, loads, first, disk)
                IN  /\ http' = [endpoint |-> "upload_batch",
                                req |-> <<files, loads>>,
                                status |-> r.status, body |-> r.body, tmp |-> r.tmp]
                    /\ disk' = r.disk
            /\ UNCHANGED <<taskQueue, bgTasks>>
            /\ UNCHANGED notApiVars

\* uuid4 never repeats: a name is free when no file and no queued job has it.
FreeUuids == FreeNames("uuid", disk \cup {j.path : j \in taskQueue})

\* POST /api/v1/documents/process
ProcessDocument ==
    \E file \in Uploads, n \in FreeUuids, processOutcome \in Outcomes :
        LET r == process_document(file, n, processOutcome, disk)
        IN  /\ http' = [endpoint |-> "process",
                        req |-> <<file, processOutcome>>,
                        status |-> r.status, body |-> r.body, tmp |-> r.tmp]
            /\ disk' = r.disk
            /\ bgTasks' = bgTasks \cup r.scheduled
            /\ UNCHANGED taskQueue
            /\ UNCHANGED notApiVars

\* POST /api/v1/documents/async-process
AsyncProcessDocument ==
    \E file \in Uploads, n \in FreeUuids, delayOutcome \in Outcomes :
        LET r == async_process_document(file, n, delayOutcome, disk, taskQueue)
        IN  /\ http' = [endpoint |-> "async_process",
                        req |-> <<file, delayOutcome>>,
                        status |-> r.status, body |-> r.body, tmp |-> r.tmp]
            /\ disk' = r.disk
            /\ bgTasks' = bgTasks \cup r.scheduled
            /\ taskQueue' = r.queue
            /\ UNCHANGED notApiVars

\* utils.file_utils.clean_temp_files(temp_path), run from the BackgroundTasks
\* after the response.
CleanTempFiles ==
    \E p \in bgTasks :
        /\ disk' = disk \ {p}
        /\ bgTasks' = bgTasks \ {p}
        /\ UNCHANGED <<taskQueue, http>>
        /\ UNCHANGED notApiVars

\* The task ids a client asks about: those of queued jobs and one no job has.
UnknownTask == [dir |-> "uuid", n |-> 0, name |-> <<"", ".txt">>]
TaskIdsAsked == {j.path : j \in taskQueue} \cup {UnknownTask}

KnownTask(task_id) == \E j \in taskQueue : j.path = task_id

\* GET /api/v1/tasks/{task_id}
GetTaskStatusRoute ==
    \E task_id \in TaskIdsAsked, helper \in HelperResults :
        /\ KnownTask(task_id) => helper # "none"
        /\ LET r == get_task_status_route(task_id, helper)
           IN  http' = [endpoint |-> "task_status", req |-> <<task_id, helper>>,
                        status |-> r.status, body |-> r.body, tmp |-> {}]
        /\ UNCHANGED <<disk, taskQueue, bgTasks>>
        /\ UNCHANGED notApiVars

\* POST /api/v1/tasks/{task_id}/cancel
CancelTaskRoute ==
    \E task_id \in TaskIdsAsked, helper \in HelperResults :
        /\ KnownTask(task_id) => helper # "none"
        /\ LET r == cancel_task_route(task_id, helper)
           IN  http' = [endpoint |-> "task_cancel", req |-> <<task_id, helper>>,
                        status |-> r.status, body |-> r.body, tmp |-> {}]
        /\ UNCHANGED <<disk, taskQueue, bgTasks>>
        /\ UNCHANGED notApiVars

\* A request to an endpoint that depends on get_current_user or get_admin_user.
\* status 200 and reached: the dependency returned and the handler ran.
ProtectedRequest ==
    \E token \in Tokens, dependency \in {"get_current_user", "get_admin_user"} :
        LET r == IF dependency = "get_admin_user" THEN get_admin_user(token)
                 ELSE get_current_user(token)
        IN  /\ http' = [endpoint |-> dependency, req |-> <<token>>,
                        status |-> r.status,
                        body |-> [reached |-> ~r.raised, user |-> r.user], tmp |-> {}]
            /\ UNCHANGED <<disk, taskQueue, bgTasks>>
            /\ UNCHANGED notApiVars

NextUpload ==
    \/ UploadFile
    \/ UploadDocument
    \/ UploadBatch

NextProcess ==
    \/ ProcessDocument
    \/ AsyncProcessDocument
    \/ CleanTempFiles
    \/ GetTaskStatusRoute
    \/ CancelTaskRoute

NextAuth == ProtectedRequest

\* C2: once a single-file upload endpoint has answered, the temp file created
\* for the request is gone from the disk, whether the request succeeded or
\* failed.
C2_TempFileRemoved ==
    http.endpoint \in {"upload_file", "upload_document"} => http.tmp \cap disk = {}

\* C3: a protected handler is reached only with a token whose verification
\* returned claims; no token or a token not signed with the secret key gets
\* 401; get_admin_user answers 403 when the verified claims' role is not admin.
C3_ProtectedOnlyWithClaims ==
    http.endpoint \in {"get_current_user", "get_admin_user"} =>
        LET token == http.req[1]
            verified == /\ token.present /\ token.wellformed
                        /\ token.key = SECRET_KEY /\ ~token.expired
        IN  /\ http.body.reached => verified /\ http.body.user = token.payload
            /\ (~token.present \/ token.key # SECRET_KEY) =>
                  http.status = 401 /\ ~http.body.reached
            /\ (http.endpoint = "get_admin_user" /\ verified
                    /\ token.payload.role # "admin") =>
                  http.status = 403 /\ ~http.body.reached

\* get_admin_user has refused verified claims whose role is not admin.
C3_Witness ==
    /\ http.endpoint = "get_admin_user"
    /\ http.req[1].key = SECRET_KEY
    /\ http.req[1].wellformed
    /\ ~http.req[1].expired
    /\ http.req[1].payload.role = "user"
    /\ http.status = 403

\* The items of a batch request that failed: rejected by validate_file, or an
\* error of loader.load_file.
FailedItems(files, loads) ==
    {i \in 1..Len(files) : validate_file(files[i]).raised \/ loads[i] = "raise"}

\* C4: the batch endpoint always answers with one entry per item; an item
\* that failed (rejected by validation, or an error while processing) is an
\* entry with an error field, and the whole request never fails for it.
C4_BatchReportsPerItem ==
    http.endpoint = "upload_batch" =>
        LET files == http.req[1]
            loads == http.req[2]
        IN  /\ http.status = 200
            /\ DOMAIN http.body.details = 1..Len(files)
            /\ \A i \in 1..Len(files) :
                  (i \in FailedItems(files, loads))
                      <=> ("error" \in DOMAIN http.body.details[i])

\* Whether process_document's validation rejects the upload.
RejectedByProcess(file) ==
    file.size > MAX_FILE_SIZE \/ Lower(file.ext) \notin ALLOWED_EXTENSIONS

\* C5: async-process rejects an upload over the size ceiling (413) or with an
\* extension outside the allow-list (415), and hands no job to the task queue
\* for a rejected upload.
C5_AsyncProcessValidates ==
    /\ (http.endpoint = "async_process" /\ RejectedByProcess(http.req[1])) =>
           http.status \in {413, 415}
    /\ \A j \in taskQueue : ~RejectedByProcess(j.file)

\* C6: the task routes answer 404 for a task id no job has.
C6_UnknownTaskIs404 ==
    (http.endpoint \in {"task_status", "task_cancel"} /\ ~KnownTask(http.req[1])) =>
        http.status = 404

(***************************************************************************)
(* api/process_router.py: the job queued by async-process and the cleanup  *)
(* of its temp file                                                        *)
(***************************************************************************)

WorkerIdle == workerLoads = {}

\* The worker runs the job queued by process_document_async.delay(temp_path):
\* it opens temp_path.  The worker is another process; it takes the job at any
\* time after the delay() call, and the file is there only when nothing has
\* deleted it.
WorkerLoad ==
    \E j \in taskQueue :
        /\ \A l \in workerLoads : l.path # j.path
        /\ workerLoads' = workerLoads \cup {[path |-> j.path, found |-> j.path \in disk]}
        /\ UNCHANGED notWorkerVars

NextAsync ==
    \/ AsyncProcessDocument
    \/ CleanTempFiles
    \/ WorkerLoad

\* C29: the temp file of a queued job is still there when the worker reads it:
\* the cleanup scheduled by the request has not run before the load.
C29_TempFileOutlivesLoad ==
    \A l \in workerLoads : l.found

(***************************************************************************)
(* core/tools/async_tasks.py: process_file_task                            *)
(* tests/document_processor.py: process_document_task                      *)
(* Both are Celery tasks with autoretry_for=(Exception,) and               *)
(* retry_kwargs={'max_retries': 3}; the worker tracks the started state.   *)
(***************************************************************************)

\* retry_kwargs={'max_retries': 3}; Task.max_retries has the same value.
max_retries == 3

MaxTasks == 2
TaskIds == 1..MaxTasks
TaskKinds == {"process_file_task", "process_document_task"}
ErrorTexts == {"file not found", "decode error"}

\* A number of the program, kept in hundredths so that fractions are integers.
Num(x) == x * 100

NoInfo == [none |-> TRUE]

\* A task nobody has sent yet.
NoJob == [kind |-> None, msg |-> "none", retries |-> 0, pc |-> "none",
          state |-> "PENDING", info |-> NoInfo, published |-> <<>>,
          event |-> FALSE, failed |-> 0, error |-> None]

\* Task.retry(exc=exc, max_retries=max_retries) in an execution whose
\* request.retries is retries: a Retry (the task is sent again) while the limit
\* is not exceeded, else exc itself is raised.
retry(retries) ==
    IF retries + 1 > max_retries THEN "raise exc" ELSE "Retry"

\* What the worker does with the exception that leaves the task function
\* (celery.app.trace): Retry stores the RETRY state and the task is sent again
\* with retries + 1; Reject stores nothing and rejects the message; any other
\* exception stores FAILURE with the exception as the result.
TraceRetry(j, exc) ==
    [j EXCEPT !.state = "RETRY", !.info = [exc |-> exc], !.msg = "queued",
              !.retries = j.retries + 1, !.pc = "none"]

TraceReject(j) == [j EXCEPT !.msg = "rejected", !.pc = "none"]

TraceFailure(j, exc) ==
    [j EXCEPT !.state = "FAILURE", !.info = [exc |-> exc], !.msg = "acked",
              !.pc = "none"]

TraceSuccess(j, result) ==
    [j EXCEPT !.state = "SUCCESS", !.info = [result |-> result], !.msg = "acked",
              !.pc = "none"]

\* process_file_task, the first statement: self.update_state(state='PROGRESS',
\* meta={'status': 'Analyzing file', 'progress': 10}).
process_file_task_update_state(j) ==
    LET meta == [status |-> "Analyzing file", progress |-> Num(10)]
    IN  [j EXCEPT !.state = "PROGRESS", !.info = meta,
                  !.published = Append(j.published, meta), !.pc = "load"]

\* process_file_task from processor.load_file_sync on.  An exception e is
\* logged, the task-failed event is sent on the last attempt, and
\* Reject(str(e), requeue=False) is raised; the autoretry wrapper catches it
\* (Reject is an Exception) and calls retry(exc=Reject).
process_file_task_load(j, outcome, e) ==
    IF outcome = "ok"
    THEN TraceSuccess(j, "metrics")
    ELSE LET sent == [j EXCEPT !.event = (j.retries = max_retries) \/ j.event,
                               !.failed = j.failed + 1, !.error = e]
         IN  IF retry(j.retries) = "Retry"
             THEN TraceRetry(sent, e)
             ELSE TraceReject(sent)

\* process_document_task: an exception e is logged and self.retry(exc=e) is
\* raised; when retry raises e itself, the autoretry wrapper catches e, calls
\* retry again and e leaves the task.
process_document_task(j, outcome, e) ==
    IF outcome = "ok"
    THEN TraceSuccess(j, "embeddings and entities")
    ELSE LET failed == [j EXCEPT !.failed = j.failed + 1, !.error = e]
         IN  IF retry(j.retries) = "Retry"
             THEN TraceRetry(failed, e)
             ELSE TraceFailure(failed, e)

JobStart == jobs = [id \in TaskIds |-> NoJob]

\* task.delay(...): the message is queued; the backend has no entry (PENDING).
Delay ==
    \E id \in TaskIds, kind \in TaskKinds :
        /\ jobs[id].msg = "none"
        /\ jobs' = [jobs EXCEPT ![id] = [NoJob EXCEPT !.kind = kind, !.msg = "queued"]]
        /\ UNCHANGED notJobVars

\* The worker takes the message: task_track_started stores STARTED, and the
\* task function begins a new attempt.
Start ==
    \E id \in TaskIds :
        /\ jobs[id].msg = "queued"
        /\ jobs' = [jobs EXCEPT ![id] =
                       [@ EXCEPT !.msg = "executing", !.state = "STARTED",
                                 !.info = [pid |-> 1], !.published = <<>>,
                                 !.pc = IF jobs[id].kind = "process_file_task"
                                        THEN "update_state" ELSE "process"]]
        /\ UNCHANGED notJobVars

UpdateState ==
    \E id \in TaskIds :
        /\ jobs[id].pc = "update_state"
        /\ jobs' = [jobs EXCEPT ![id] = process_file_task_update_state(@)]
        /\ UNCHANGED notJobVars

LoadFile ==
    \E id \in TaskIds, outcome \in Outcomes, e \in ErrorTexts :
        /\ jobs[id].pc = "load"
        /\ outcome = "ok" => e = "file not found"
        /\ jobs' = [jobs EXCEPT ![id] = process_file_task_load(@, outcome, e)]
        /\ UNCHANGED notJobVars

ProcessDocumentTask ==
    \E id \in TaskIds, outcome \in Outcomes, e \in ErrorTexts :
        /\ jobs[id].pc = "process"
        /\ outcome = "ok" => e = "file not found"
        /\ jobs' = [jobs EXCEPT ![id] = process_document_task(@, outcome, e)]
        /\ UNCHANGED notJobVars

NextJob ==
    \/ Delay
    \/ Start
    \/ UpdateState
    \/ LoadFile
    \/ ProcessDocumentTask

\* A job is over: its message is acknowledged or rejected and none is queued.
Over(j) == j.msg \in {"acked", "rejected"}

\* C8: a job whose body raises is retried at most max_retries (3) times; once
\* its last attempt has failed the job is in the terminal FAILURE state with
\* the error text, and no further attempt is made.
C8_RetriedThenFailure ==
    \A id \in TaskIds :
        /\ jobs[id].retries <= max_retries
        /\ jobs[id].failed <= max_retries + 1
        /\ (Over(jobs[id]) /\ jobs[id].failed > 0 /\ jobs[id].state # "SUCCESS") =>
              /\ jobs[id].state = "FAILURE"
              /\ jobs[id].info = [exc |-> jobs[id].error]

\* The stages of a document-processing job, in order.
Stages == <<"load", "preprocess", "chunk", "embed", "annotate", "persist">>

\* C9: a running process_file_task job publishes a progress update after each
\* of the stages, in order; every published progress is a fraction in
\* [0.0, 1.0] and progress never decreases during one attempt.
C9_StagedFractionalProgress ==
    \A id \in TaskIds :
        LET pub == jobs[id].published
        IN  jobs[id].kind = "process_file_task" =>
            /\ \A k \in 1..Len(pub) :
                  /\ Num(0) <= pub[k].progress /\ pub[k].progress <= Num(1)
                  /\ k > 1 => pub[k - 1].progress <= pub[k].progress
            /\ Len(pub) <= Len(Stages)
            /\ jobs[id].state = "SUCCESS" => Len(pub) = Len(Stages)

(***************************************************************************)
(* api/status.py: GET /status/{task_id}                                    *)
(***************************************************************************)

\* A Python value: its type t, with its number n (in hundredths) or its text s.
Val(t, n, s) == [t |-> t, n |-> n, s |-> s]
PyNone == Val("none", 0, "")
PyNum(n) == Val("num", n, "")
PyStr(s) == Val("str", 0, s)
\* A string that spells a number ("0.42").
PyNumStr(n) == Val("numstr", n, "")
\* An exception instance with its message, and a task's return value.
PyExc(s) == Val("exc", 0, s)
PyResult(s) == Val("result", 0, s)

\* float(x): the number itself or the number a string spells; TypeError for
\* None, ValueError for any other string.
float(x) ==
    IF x.t \in {"num", "numstr"}
    THEN [raised |-> FALSE, value |-> Val("float", x.n, "")]
    ELSE [raised |-> TRUE, value |-> PyNone]

\* str(x) of an exception instance: its message.
str(x) == IF x.t = "exc" THEN PyStr(x.s) ELSE PyStr("repr")

\* task.info of a started or progress job: None, or a dictionary that may
\* hold a progress entry.
NoDict == [dict |-> FALSE, keys |-> {}, progress |-> PyNone]
Dict(keys, progress) == [dict |-> TRUE, keys |-> keys, progress |-> progress]

ProgressValues ==
    {PyNum(Num(0)), PyNum(42), PyNum(Num(1)), PyNum(Num(10)), PyNumStr(42),
     PyStr("half"), PyNone}

Infos ==
    {NoDict, Dict({}, PyNone), Dict({"pid"}, PyNone)}
    \cup {Dict({"progress"}, p) : p \in ProgressValues}

StatusTaskIds == {"task-1", "task-2"}

\* What AsyncResult(task_id, app=celery) reads: the state, the info of a
\* running job, the result of a finished one.
Backends ==
    {[task_id |-> id, state |-> st, info |-> NoDict, result |-> PyNone] :
        id \in StatusTaskIds, st \in {"PENDING", "REVOKED"}}
    \cup {[task_id |-> id, state |-> st, info |-> i, result |-> PyNone] :
        id \in StatusTaskIds, st \in {"STARTED", "PROGRESS"}, i \in Infos}
    \cup {[task_id |-> id, state |-> "SUCCESS", info |-> NoDict, result |-> r] :
        id \in StatusTaskIds, r \in {PyResult("metrics"), PyNone}}
    \cup {[task_id |-> id, state |-> st, info |-> NoDict, result |-> PyExc(e)] :
        id \in StatusTaskIds, st \in {"FAILURE", "RETRY"}, e \in ErrorTexts}

\* TaskStatusResponse(task_id, status, progress=None, result=None, error=None)
TaskStatusResponse(task_id, status, progress, result, error) ==
    [code |-> 200, task_id |-> task_id, status |-> status, progress |-> progress,
     result |-> result, error |-> error]

\* A mutant of get_task_status: only the PROGRESS state reports progress.
get_task_status_progress_only(task) ==
    IF task.state = "PENDING"
    THEN TaskStatusResponse(task.task_id, task.state, PyNone, PyNone, PyNone)
    ELSE IF task.state = "PROGRESS"
    THEN LET info == IF task.info.dict THEN task.info ELSE Dict({}, PyNone)
             progress == float(IF "progress" \in info.keys THEN info.progress
                               ELSE PyNum(0))
         IN  IF progress.raised
             THEN [code |-> 500, task_id |-> task.task_id, status |-> "",
                   progress |-> PyNone, result |-> PyNone, error |-> PyNone]
             ELSE TaskStatusResponse(task.task_id, task.state, progress.value,
                                     PyNone, PyNone)
    ELSE IF task.state = "SUCCESS"
    THEN TaskStatusResponse(task.task_id, task.state, PyNone, task.result, PyNone)
    ELSE IF task.state = "FAILURE"
    THEN TaskStatusResponse(task.task_id, task.state, PyNone, PyNone,
                            str(task.result))
    ELSE TaskStatusResponse(task.task_id, task.state, PyNone, PyNone, PyNone)

\* api/status.py: get_task_status(task_id); task is AsyncResult(task_id).  An
\* exception (float() of a progress that is no number) is answered with a
\* JSONResponse 500.
get_task_status(task) ==
    IF task.state = "PENDING"
    THEN TaskStatusResponse(task.task_id, task.state, PyNone, PyNone, PyNone)
    ELSE IF task.state = "STARTED" \/ task.state = "PROGRESS"
    THEN LET info == IF task.info.dict THEN task.info ELSE Dict({}, PyNone)
             progress == float(IF "progress" \in info.keys THEN info.progress
                               ELSE PyNum(0))
         IN  IF progress.raised
             THEN [code |-> 500, task_id |-> task.task_id, status |-> "",
                   progress |-> PyNone, result |-> PyNone, error |-> PyNone]
             ELSE TaskStatusResponse(task.task_id, task.state, progress.value,
                                     PyNone, PyNone)
    ELSE IF task.state = "SUCCESS"
    THEN TaskStatusResponse(task.task_id, task.state, PyNone, task.result, PyNone)
    ELSE IF task.state = "FAILURE"
    THEN TaskStatusResponse(task.task_id, task.state, PyNone, PyNone,
                            str(task.result))
    ELSE TaskStatusResponse(task.task_id, task.state, PyNone, PyNone, PyNone)

NoStatusResponse == [code |-> 0, task_id |-> "", status |-> "", progress |-> PyNone,
                     result |-> PyNone, error |-> PyNone]

StatusStart ==
    /\ backend \in Backends
    /\ statusResp = NoStatusResponse

\* GET /status/{task_id}
GetTaskStatus ==
    /\ statusResp' = get_task_status(backend)
    /\ UNCHANGED backend
    /\ UNCHANGED notStatusVars

NextStatus == GetTaskStatus

\* C7: the status payload follows the job's state: pending gives the status
\* only; started or progress with {"progress": p} gives that state as status,
\* progress p and no result; success gives the result and no error; failure
\* gives the failure's text as error and no result.
C7_StatusPayload ==
    statusResp.code # 0 =>
        /\ backend.state = "PENDING" =>
              statusResp = TaskStatusResponse(backend.task_id, "PENDING",
                                              PyNone, PyNone, PyNone)
        /\ (backend.state \in {"STARTED", "PROGRESS"}
                /\ "progress" \in backend.info.keys
                /\ backend.info.progress.t = "num") =>
              /\ statusResp.code = 200
              /\ statusResp.status = backend.state
              /\ statusResp.progress.t = "float"
              /\ statusResp.progress.n = backend.info.progress.n
              /\ statusResp.result = PyNone
        /\ backend.state = "SUCCESS" =>
              /\ statusResp.code = 200
              /\ statusResp.status = "SUCCESS"
              /\ statusResp.result = backend.result
              /\ statusResp.error = PyNone
        /\ backend.state = "FAILURE" =>
              /\ statusResp.code = 200
              /\ statusResp.status = "FAILURE"
              /\ statusResp.error.t = "str"
              /\ statusResp.error.s = backend.result.s
              /\ statusResp.result = PyNone

\* A job in the PROGRESS state reporting progress 0.42 was answered with it.
C7_Witness ==
    /\ backend.state = "PROGRESS"
    /\ "progress" \in backend.info.keys
    /\ backend.info.progress = PyNum(42)
    /\ statusResp.code = 200
    /\ statusResp.progress.n = 42

(***************************************************************************)
(* core/processor/retriever.py: Retriever                                  *)
(***************************************************************************)

MaxStored == 2      \* vectors or records in a file found at start-up
MaxNew == 3         \* vectors or records passed to one update_index call
MaxIndex == 5       \* vectors held in memory

\* A file: whether it exists, and the sequence pickled or written into it.
NoFile == [exists |-> FALSE, data |-> <<>>]
File(data) == [exists |-> TRUE, data |-> data]

\* A vector: its identity and whether it has the index's dimension.  A
\* metadata record: the document it describes, or (doc 0) a placeholder
\* {"vector_id": i} of _rebuild_index_metadata.
Vector(id, ok) == [id |-> id, ok |-> ok]
Meta(doc) == [vector_id |-> -1, doc |-> doc]
Placeholder(i) == [vector_id |-> i, doc |-> 0]

\* The files a Retriever may find: written by an earlier run, k vectors and
\* m records; the counts differ when that run stopped between the two writes.
StoredVectors(k) == [i \in 1..k |-> Vector(i, TRUE)]
StoredMeta(m) == [i \in 1..m |-> Meta(i)]

\* Retriever._rebuild_index_metadata(): [{"vector_id": i} for i in range(ntotal)]
_rebuild_index_metadata(ntotal) == [i \in 1..ntotal |-> Placeholder(i - 1)]

\* Retriever._verify_paths() and _load_resources(): missing files are created
\* empty, both are read, and metadata of another length than the index is
\* rebuilt and saved.  saveOutcome is what _save_metadata does.
_load_resources(ifile, mfile, saveOutcome) ==
    LET ifile1 == IF ifile.exists THEN ifile ELSE File(<<>>)
        mfile1 == IF mfile.exists THEN mfile ELSE File(<<>>)
        idx == ifile1.data
        meta == mfile1.data
    IN  IF Len(meta) # Len(idx)
        THEN LET rebuilt == _rebuild_index_metadata(Len(idx))
             IN  IF saveOutcome = "ok"
                 THEN [raised |-> FALSE, index |-> idx, metadata |-> rebuilt,
                       indexFile |-> ifile1, metaFile |-> File(rebuilt)]
                 ELSE [raised |-> TRUE, index |-> <<>>, metadata |-> <<>>,
                       indexFile |-> ifile1, metaFile |-> mfile1]
        ELSE [raised |-> FALSE, index |-> idx, metadata |-> meta,
              indexFile |-> ifile1, metaFile |-> mfile1]

\* seq[i:i + batch_size] of Python, for a 0-based i.
Slice(seq, i, batch_size) ==
    SubSeq(seq, i + 1, IF i + batch_size < Len(seq) THEN i + batch_size ELSE Len(seq))

\* A mutant of the loop body of update_index: the metadata is extended before
\* index.add is called.
update_batch_meta_first(idx, meta, batch_vectors, batch_meta) ==
    IF \E k \in 1..Len(batch_vectors) : ~batch_vectors[k].ok
    THEN [raised |-> TRUE, index |-> idx, metadata |-> meta \o batch_meta]
    ELSE [raised |-> FALSE, index |-> idx \o batch_vectors,
          metadata |-> meta \o batch_meta]

\* update_index, one pass of the loop: np.array(batch).astype("float32") and
\* index.add(vectors) raise for a batch holding a vector of another dimension
\* and add nothing; then self.metadata.extend(batch_meta).
update_batch(idx, meta, batch_vectors, batch_meta) ==
    IF \E k \in 1..Len(batch_vectors) : ~batch_vectors[k].ok
    THEN [raised |-> TRUE, index |-> idx, metadata |-> meta]
    ELSE [raised |-> FALSE, index |-> idx \o batch_vectors,
          metadata |-> meta \o batch_meta]

\* No retrieve call was made and nothing is cached.
SearchIdle_cache == [key \in {"q1"} |-> [held |-> FALSE, results |-> <<>>]]

SearchIdle ==
    /\ query_cache = SearchIdle_cache
    /\ retrieved = [n |-> 0, raised |-> FALSE, result |-> <<>>, uncached |-> <<>>]

\* No concurrent update_index calls are under way.
WritersIdle ==
    writers = [w \in {"a", "b"} |->
                  [pc |-> "idle", new_vectors |-> <<>>, new_metadata |-> <<>>, i |-> 0,
                   batch_size |-> 1]]

NoUpdate == [pc |-> "unloaded", new_vectors |-> <<>>, new_metadata |-> <<>>,
             batch_size |-> 1, i |-> 0, result |-> "none",
             before |-> [index |-> <<>>, metadata |-> <<>>,
                         indexFile |-> NoFile, metaFile |-> NoFile],
             rebuilt |-> FALSE]

RetrieverIdle ==
    /\ indexFile = NoFile
    /\ metaFile = NoFile
    /\ index = <<>>
    /\ metadata = <<>>
    /\ update = NoUpdate
    /\ SearchIdle
    /\ WritersIdle

RetrieverStart ==
    /\ indexFile \in {NoFile} \cup {File(StoredVectors(k)) : k \in 0..MaxStored}
    /\ metaFile \in {NoFile} \cup {File(StoredMeta(m)) : m \in 0..MaxStored}
    /\ index = <<>>
    /\ metadata = <<>>
    /\ update = NoUpdate
    /\ SearchIdle
    /\ WritersIdle

\* Retriever.__init__: _verify_paths() and _load_resources().
Load ==
    \E saveOutcome \in Outcomes :
        LET r == _load_resources(indexFile, metaFile, saveOutcome)
            mismatch == Len(IF metaFile.exists THEN metaFile.data ELSE <<>>)
                            # Len(IF indexFile.exists THEN indexFile.data ELSE <<>>)
        IN  /\ update.pc = "unloaded"
            /\ ~mismatch => saveOutcome = "ok"
            /\ indexFile' = r.indexFile
            /\ metaFile' = r.metaFile
            /\ index' = r.index
            /\ metadata' = r.metadata
            /\ update' = IF r.raised THEN update
                         ELSE [update EXCEPT !.pc = "idle", !.result = "loaded",
                                             !.rebuilt = mismatch]
            /\ UNCHANGED <<query_cache, retrieved, writers>>
            /\ UNCHANGED notRetrieverVars

BatchSizes == {1, 2, 1000}

\* update_index(new_vectors, new_metadata, batch_size), up to the loop: a call
\* whose lists differ in length raises ValueError.  The k-th new vector and the
\* k-th new record carry the same fresh number; badAt is the position of a
\* vector of another dimension (0: none).
UpdateIndex ==
    \E nv \in 0..MaxNew, nm \in 0..MaxNew, badAt \in 0..MaxNew,
       batch_size \in BatchSizes :
        LET base == Len(index)
            new_vectors == [k \in 1..nv |-> Vector(base + k, k # badAt)]
            new_metadata == [k \in 1..nm |-> Meta(base + k)]
            call == [update EXCEPT !.new_vectors = new_vectors,
                                   !.new_metadata = new_metadata,
                                   !.batch_size = batch_size, !.i = 0,
                                   !.before = [index |-> index,
                                               metadata |-> metadata,
                                               indexFile |-> indexFile,
                                               metaFile |-> metaFile]]
        IN  /\ update.pc = "idle"
            /\ badAt <= nv
            /\ Len(index) + nv <= MaxIndex
            /\ update' = IF Len(new_vectors) # Len(new_metadata)
                         THEN [call EXCEPT !.result = "ValueError"]
                         ELSE [call EXCEPT !.pc = "loop", !.result = "none"]
            /\ UNCHANGED <<indexFile, metaFile, index, metadata>>
            /\ UNCHANGED <<query_cache, retrieved, writers>>
            /\ UNCHANGED notRetrieverVars

\* One pass of the loop of update_index.
UpdateBatch ==
    /\ update.pc = "loop"
    /\ update.i < Len(update.new_vectors)
    /\ LET r == update_batch(index, metadata,
                             Slice(update.new_vectors, update.i, update.batch_size),
                             Slice(update.new_metadata, update.i, update.batch_size))
       IN  /\ index' = r.index
           /\ metadata' = r.metadata
           /\ update' = IF r.raised
                        THEN [update EXCEPT !.pc = "idle", !.result = "raised"]
                        ELSE [update EXCEPT !.i = @ + update.batch_size]
    /\ UNCHANGED <<indexFile, metaFile>>
    /\ UNCHANGED <<query_cache, retrieved, writers>>
    /\ UNCHANGED notRetrieverVars

\* _save_index(), first half: faiss.write_index(self.index, self.index_path).
SaveIndex ==
    \E outcome \in Outcomes :
        /\ update.pc = "loop"
        /\ update.i >= Len(update.new_vectors)
        /\ indexFile' = IF outcome = "ok" THEN File(index) ELSE indexFile
        /\ update' = IF outcome = "ok"
                     THEN [update EXCEPT !.pc = "save_metadata"]
                     ELSE [update EXCEPT !.pc = "idle", !.result = "raised"]
        /\ UNCHANGED <<metaFile, index, metadata>>
        /\ UNCHANGED <<query_cache, retrieved, writers>>
        /\ UNCHANGED notRetrieverVars

\* _save_index(), second half: _save_metadata() writes a temp file and
\* replaces the pickle with it.
SaveMetadata ==
    \E outcome \in Outcomes :
        /\ update.pc = "save_metadata"
        /\ metaFile' = IF outcome = "ok" THEN File(metadata) ELSE metaFile
        /\ update' = IF outcome = "ok"
                     THEN [update EXCEPT !.pc = "idle", !.result = "returned"]
                     ELSE [update EXCEPT !.pc = "idle", !.result = "raised"]
        /\ UNCHANGED <<indexFile, index, metadata>>
        /\ UNCHANGED <<query_cache, retrieved, writers>>
        /\ UNCHANGED notRetrieverVars

NextRetriever ==
    \/ Load
    \/ UpdateIndex
    \/ UpdateBatch
    \/ SaveIndex
    \/ SaveMetadata

C11_PersistsAtomically ==
    update.pc \in {"loop", "save_metadata"} \/ update.result \in {"returned", "raised"} =>
        \/ indexFile = update.before.indexFile /\ metaFile = update.before.metaFile
        \/ indexFile = File(index) /\ metaFile = File(metadata)

(***************************************************************************)
(* core/processor/retriever.py: Retriever.retrieve and its cache           *)
(***************************************************************************)

MaxRetrieves == 2       \* retrieve calls

Queries == {"q1"}
TopKs == {1, 2}
Alphas == {0, 5, 10}    \* alpha in tenths: 0.0, 0.5 (the default), 1.0
FilterChoices == {"None", "dict"}

\* A result: the vector found and its score.
Hit(vector_id, score) == [vector_id |-> vector_id, score |-> score]

\* The inner product of the query with vector id: q1 is nearest to the
\* oldest vectors, q2 to the newest.
Similarity(query, id) == IF query = "q1" THEN MaxIndex + 1 - id ELSE id

\* How many keywords of the query the record of vector id holds.
KeywordScore(query, id) == IF query = "q1" THEN id % 2 ELSE (id + 1) % 2

\* sorted(results, key=lambda x: x["score"], reverse=True): stable, the highest score first.
RECURSIVE SortedDesc(_)
SortedDesc(hits) ==
    IF hits = <<>> THEN <<>>
    ELSE LET best == CHOOSE k \in 1..Len(hits) :
                         /\ \A j \in 1..Len(hits) : hits[j].score <= hits[k].score
                         /\ \A j \in 1..(k - 1) : hits[j].score < hits[k].score
         IN  <<hits[best]>> \o
             SortedDesc(SubSeq(hits, 1, best - 1) \o SubSeq(hits, best + 1, Len(hits)))

Prefix(seq, n) == SubSeq(seq, 1, IF n < Len(seq) THEN n ELSE Len(seq))

\* _semantic_search(query, top_k): index.search gives the top_k nearest
\* vectors; those with a metadata record become results.
_semantic_search(idx, meta, query, top_k) ==
    LET all == [k \in 1..Len(idx) |-> Hit(k - 1, Similarity(query, idx[k].id))]
        found == Prefix(SortedDesc(all), top_k)
    IN  SelectSeq(found, LAMBDA h : h.vector_id < Len(meta))

\* _keyword_search(query, top_k): the records holding a keyword, by score.
_keyword_search(meta, query, top_k) ==
    LET all == [k \in 1..Len(meta) |-> Hit(k - 1, KeywordScore(query, k))]
        found == SelectSeq(all, LAMBDA h : h.score > 0)
    IN  Prefix(SortedDesc(found), top_k)

MaxScore(hits) ==
    IF hits = <<>> THEN 1
    ELSE LET k == CHOOSE k \in 1..Len(hits) : \A j \in 1..Len(hits) : hits[j].score <= hits[k].score
         IN  hits[k].score

\* _combine_results(semantic, keyword, alpha): per vector_id,
\* alpha * score / max_sem + (1 - alpha) * score / max_kw, highest first.  The
\* combined score is kept as the integer 10 * max_sem * max_kw times it.
_combine_results(semantic, keyword, alpha) ==
    LET max_sem == MaxScore(semantic)
        max_kw == MaxScore(keyword)
        KwOf(id) == LET ks == SelectSeq(keyword, LAMBDA h : h.vector_id = id)
                    IN  IF ks = <<>> THEN 0 ELSE ks[1].score
        InSem(id) == \E k \in 1..Len(semantic) : semantic[k].vector_id = id
        fromSem == [k \in 1..Len(semantic) |->
                       Hit(semantic[k].vector_id,
                           alpha * semantic[k].score * max_kw
                               + (10 - alpha) * KwOf(semantic[k].vector_id) * max_sem)]
        kwOnly == SelectSeq(keyword, LAMBDA h : ~InSem(h.vector_id))
        fromKw == [k \in 1..Len(kwOnly) |->
                      Hit(kwOnly[k].vector_id, (10 - alpha) * kwOnly[k].score * max_sem)]
    IN  SortedDesc(fromSem \o fromKw)

\* The vector_ids of results, in order.
Ids(hits) == [k \in 1..Len(hits) |-> hits[k].vector_id]

\* What retrieve computes when nothing is cached.
search(idx, meta, query, top_k, hybrid, alpha) ==
    IF hybrid
    THEN _combine_results(_semantic_search(idx, meta, query, top_k),
                          _keyword_search(meta, query, top_k), alpha)
    ELSE _semantic_search(idx, meta, query, top_k * 3)

\* retrieve(query, top_k, filters=filters, hybrid=hybrid, alpha=alpha) on the
\* cache c.  The cache key is made of query and filters by an lru_cache'd
\* method, which raises TypeError for a dict (it cannot be hashed).
retrieve(c, idx, meta, query, top_k, filters, hybrid, alpha) ==
    IF filters = "dict"
    THEN [raised |-> TRUE, hit |-> FALSE, result |-> <<>>, cache |-> c]
    ELSE IF c[query].held
    THEN [raised |-> FALSE, hit |-> TRUE,
          result |-> Prefix(c[query].results, top_k), cache |-> c]
    ELSE LET results == Ids(search(idx, meta, query, top_k, hybrid, alpha))
         IN  [raised |-> FALSE, hit |-> FALSE, result |-> Prefix(results, top_k),
              cache |-> [c EXCEPT ![query] = [held |-> TRUE, results |-> results]]]

\* A Retriever whose files were written by a run that ended well.
SearchStart ==
    /\ \E k \in 0..MaxStored :
           /\ indexFile = File(StoredVectors(k))
           /\ metaFile = File(StoredMeta(k))
    /\ index = <<>>
    /\ metadata = <<>>
    /\ update = NoUpdate
    /\ SearchIdle
    /\ WritersIdle

\* await retriever.retrieve(query, top_k, filters=..., hybrid=..., alpha=...)
Retrieve ==
    \E query \in Queries, top_k \in TopKs, filters \in FilterChoices,
       hybrid \in BOOLEAN, alpha \in Alphas :
        LET r == retrieve(query_cache, index, metadata, query, top_k, filters, hybrid, alpha)
            fresh == retrieve(SearchIdle_cache, index, metadata, query, top_k, filters,
                              hybrid, alpha)
        IN  /\ update.pc = "idle"
            /\ update.result \in {"loaded", "returned"}
            /\ retrieved.n < MaxRetrieves
            /\ ~hybrid => alpha = 5
            /\ query_cache' = r.cache
            /\ retrieved' = [n |-> retrieved.n + 1, raised |-> r.raised,
                             result |-> r.result, uncached |-> fresh.result]
            /\ UNCHANGED <<indexFile, metaFile, index, metadata, update, writers>>
            /\ UNCHANGED notRetrieverVars

NextSearch ==
    \/ Load
    \/ UpdateIndex
    \/ UpdateBatch
    \/ SaveIndex
    \/ SaveMetadata
    \/ Retrieve

\* C27: every retrieve call returns what the computation without the cache
\* returns for the same query, top_k, filters, hybrid flag and alpha on the
\* index as it is.
C27_CacheTransparent ==
    retrieved.n > 0 /\ ~retrieved.raised => retrieved.result = retrieved.uncached

(***************************************************************************)
(* core/processor/retriever.py: concurrent update_index calls              *)
(***************************************************************************)

MaxWriterNew == 2       \* vectors passed to one of the concurrent calls

Writers == {"a", "b"}

\* The vectors a caller passes: numbered apart from the stored ones and from
\* the other caller's; its k-th record describes its k-th vector.
WriterBase(w) == IF w = "a" THEN 10 ELSE 20

\* update_index(new_vectors, new_metadata, batch_size) of caller w, up to its
\* first await: the first batch is handed to the executor.
WriterCall ==
    \E w \in Writers, n \in 1..MaxWriterNew, batch_size \in {1, 1000} :
        /\ update.pc = "idle"
        /\ writers[w].pc = "idle"
        /\ writers' = [writers EXCEPT ![w] =
               [pc |-> "submitted",
                new_vectors |-> [k \in 1..n |-> Vector(WriterBase(w) + k, TRUE)],
                new_metadata |-> [k \in 1..n |-> Meta(WriterBase(w) + k)],
                i |-> 0, batch_size |-> batch_size]]
        /\ UNCHANGED <<indexFile, metaFile, index, metadata, update, query_cache, retrieved>>
        /\ UNCHANGED notRetrieverVars

\* A thread of the executor runs `lambda: self.index.add(vectors)` for the
\* batch of caller w.  Two adds that overlap in time are a data race inside
\* the index; the outcomes where one add follows the other are taken here.
ThreadAdd ==
    \E w \in Writers :
        /\ writers[w].pc = "submitted"
        /\ index' = index \o Slice(writers[w].new_vectors, writers[w].i,
                                   writers[w].batch_size)
        /\ writers' = [writers EXCEPT ![w].pc = "added"]
        /\ UNCHANGED <<indexFile, metaFile, metadata, update, query_cache, retrieved>>
        /\ UNCHANGED notRetrieverVars

\* The event loop resumes caller w after its add: self.metadata.extend(
\* batch_meta), then the next batch is handed over or _save_index begins.
WriterResume ==
    \E w \in Writers :
        LET wr == writers[w]
        IN  /\ wr.pc = "added"
            /\ metadata' = metadata \o Slice(wr.new_metadata, wr.i, wr.batch_size)
            /\ writers' = [writers EXCEPT
                   ![w].i = wr.i + wr.batch_size,
                   ![w].pc = IF wr.i + wr.batch_size < Len(wr.new_vectors)
                             THEN "submitted" ELSE "save_index"]
            /\ UNCHANGED <<indexFile, metaFile, index, update, query_cache, retrieved>>
            /\ UNCHANGED notRetrieverVars

\* _save_index() of caller w: faiss.write_index in the executor.
WriterSaveIndex ==
    \E w \in Writers :
        /\ writers[w].pc = "save_index"
        /\ indexFile' = File(index)
        /\ writers' = [writers EXCEPT ![w].pc = "save_metadata"]
        /\ UNCHANGED <<metaFile, index, metadata, update, query_cache, retrieved>>
        /\ UNCHANGED notRetrieverVars

\* _save_index() of caller w: _save_metadata in the executor.
WriterSaveMetadata ==
    \E w \in Writers :
        /\ writers[w].pc = "save_metadata"
        /\ metaFile' = File(metadata)
        /\ writers' = [writers EXCEPT ![w].pc = "done"]
        /\ UNCHANGED <<indexFile, index, metadata, update, query_cache, retrieved>>
        /\ UNCHANGED notRetrieverVars

NextWriters ==
    \/ Load
    \/ WriterCall
    \/ ThreadAdd
    \/ WriterResume
    \/ WriterSaveIndex
    \/ WriterSaveMetadata

\* C28: once two concurrent update_index calls have both completed, the index
\* holds as many vectors as the metadata holds records, and the k-th vector
\* is the one that was passed with the k-th record.
C28_ConcurrentUpdatesAligned ==
    (\A w \in Writers : writers[w].pc = "done") =>
        /\ Len(index) = Len(metadata)
        /\ \A k \in 1..Len(index) :
               k <= Len(metadata) => index[k].id = metadata[k].doc

(***************************************************************************)
(* core/parser/chunker.py: TextChunker                                     *)
(***************************************************************************)

\* A Python str is a sequence of characters.  SP is a space, NL a newline,
\* the letters are the text of the words.
SP == " "
NL == "/"
Whitespace == {SP, NL}
Letters == <<"a", "b", "c">>

max_length == 4     \* TextChunker.max_length, 1000 in the code
MaxWords == 3       \* words of an input text
MaxWordLen == 5     \* characters of one word

Min(S) == CHOOSE x \in S : \A y \in S : x <= y
Max(S) == CHOOSE x \in S : \A y \in S : y <= x

\* str.strip()
Strip(s) ==
    LET kept == {i \in 1..Len(s) : s[i] \notin Whitespace}
    IN  IF kept = {} THEN <<>> ELSE SubSeq(s, Min(kept), Max(kept))

\* re.sub(r'\s+', ' ', s)
RECURSIVE CollapseFrom(_, _)
CollapseFrom(s, i) ==
    IF i > Len(s) THEN <<>>
    ELSE IF s[i] \in Whitespace
         THEN IF i > 1 /\ s[i - 1] \in Whitespace THEN CollapseFrom(s, i + 1)
              ELSE <<SP>> \o CollapseFrom(s, i + 1)
         ELSE <<s[i]>> \o CollapseFrom(s, i + 1)

Collapse(s) == CollapseFrom(s, 1)

\* str.split(sep)
RECURSIVE Split(_, _)
Split(s, sep) ==
    LET at == {i \in 1..(Len(s) - Len(sep) + 1) : SubSeq(s, i, i + Len(sep) - 1) = sep}
    IN  IF at = {} THEN <<s>>
        ELSE <<SubSeq(s, 1, Min(at) - 1)>>
                 \o Split(SubSeq(s, Min(at) + Len(sep), Len(s)), sep)

\* sep.join(parts)
RECURSIVE Join(_, _)
Join(parts, sep) ==
    IF Len(parts) = 0 THEN <<>>
    ELSE IF Len(parts) = 1 THEN parts[1]
    ELSE parts[1] \o sep \o Join(Tail(parts), sep)

\* [s for s in re.split(pattern, text) if s.strip()] with the sentence pattern
\* of _init_patterns: a sentence ends where white space follows it.
SplitSentences(text) ==
    SelectSeq(Split(Collapse(text), <<SP>>), LAMBDA s : Strip(s) # <<>>)

\* TextChunker._preprocess_text: NFKC and html.unescape leave these characters
\* as they are.
_preprocess_text(text, preserve_formatting) ==
    IF ~preserve_formatting THEN Strip(Collapse(text)) ELSE text

\* TextChunker._force_chunk
_force_chunk(text, chunk_size) ==
    [k \in 1..((Len(text) + chunk_size - 1) \div chunk_size) |->
        SubSeq(text, (k - 1) * chunk_size + 1,
               IF k * chunk_size < Len(text) THEN k * chunk_size ELSE Len(text))]

\* The loop of _chunk_by_sentences and of _chunk_by_paragraphs over items[i..],
\* and the append after it; sep joins the pieces of one chunk.
RECURSIVE ChunkLoop(_, _, _, _, _, _, _)
ChunkLoop(items, i, chunk_size, sep, chunks, current_chunk, current_length) ==
    IF i > Len(items)
    THEN IF current_chunk # <<>> THEN Append(chunks, Join(current_chunk, sep))
         ELSE chunks
    ELSE LET item == items[i]
             item_len == Len(item)
             flushed == IF current_chunk # <<>>
                        THEN Append(chunks, Join(current_chunk, sep)) ELSE chunks
             forced == _force_chunk(item, chunk_size)
         IN  IF current_length + item_len <= chunk_size
             THEN ChunkLoop(items, i + 1, chunk_size, sep, chunks,
                            Append(current_chunk, item), current_length + item_len + 1)
             ELSE IF item_len > chunk_size
                  THEN ChunkLoop(items, i + 1, chunk_size, sep,
                                 flushed \o SubSeq(forced, 1, Len(forced) - 1),
                                 <<forced[Len(forced)]>>, Len(forced[Len(forced)]))
                  ELSE ChunkLoop(items, i + 1, chunk_size, sep, flushed,
                                 <<item>>, item_len)

\* TextChunker._chunk_by_sentences
_chunk_by_sentences(text, chunk_size) ==
    ChunkLoop(SplitSentences(text), 1, chunk_size, <<SP>>, <<>>, <<>>, 0)

\* TextChunker._chunk_by_paragraphs
_chunk_by_paragraphs(text, chunk_size) ==
    ChunkLoop(SelectSeq(Split(text, <<NL, NL>>), LAMBDA p : Strip(p) # <<>>),
              1, chunk_size, <<NL, NL>>, <<>>, <<>>, 0)

\* TextChunker._mixed_chunking
RECURSIVE MixedFrom(_, _, _)
MixedFrom(paragraphs, i, chunk_size) ==
    IF i > Len(paragraphs) THEN <<>>
    ELSE (IF Len(paragraphs[i]) <= chunk_size THEN <<paragraphs[i]>>
          ELSE _chunk_by_sentences(paragraphs[i], chunk_size))
         \o MixedFrom(paragraphs, i + 1, chunk_size)

_mixed_chunking(text, chunk_size) == MixedFrom(Split(text, <<NL, NL>>), 1, chunk_size)

\* TextChunker._merge_chunks_aggressive
RECURSIVE AggressiveFrom(_, _, _, _, _, _)
AggressiveFrom(chunks, i, max_size, min_size, merged, current) ==
    IF i > Len(chunks)
    THEN IF current # <<>> THEN Append(merged, current) ELSE merged
    ELSE LET chunk == chunks[i]
         IN  IF Len(current) + Len(chunk) <= max_size
             THEN AggressiveFrom(chunks, i + 1, max_size, min_size, merged,
                                 Strip(current \o <<SP>> \o chunk))
             ELSE AggressiveFrom(chunks, i + 1, max_size, min_size,
                                 IF current # <<>> THEN Append(merged, current)
                                 ELSE merged,
                                 IF Len(chunk) >= min_size THEN chunk ELSE <<>>)

_merge_chunks_aggressive(chunks, max_size, min_size) ==
    AggressiveFrom(chunks, 1, max_size, min_size, <<>>, <<>>)

\* TextChunker._merge_chunks_conservative
RECURSIVE ConservativeFrom(_, _, _, _, _)
ConservativeFrom(chunks, i, max_size, min_size, merged) ==
    IF i > Len(chunks) THEN merged
    ELSE LET chunk == chunks[i]
             last == merged[Len(merged)]
         IN  IF merged = <<>>
             THEN ConservativeFrom(chunks, i + 1, max_size, min_size, <<chunk>>)
             ELSE IF Len(last) + Len(chunk) <= max_size /\ Len(last) < min_size
                  THEN ConservativeFrom(chunks, i + 1, max_size, min_size,
                           [merged EXCEPT ![Len(merged)] = last \o <<SP>> \o chunk])
                  ELSE ConservativeFrom(chunks, i + 1, max_size, min_size,
                                        Append(merged, chunk))

_merge_chunks_conservative(chunks, max_size, min_size) ==
    ConservativeFrom(chunks, 1, max_size, min_size, <<>>)

\* TextChunker._postprocess_chunks
_postprocess_chunks(chunks, chunk_size, merge_strategy, min_chunk_size) ==
    IF merge_strategy = "aggressive"
    THEN _merge_chunks_aggressive(chunks, chunk_size, min_chunk_size)
    ELSE _merge_chunks_conservative(chunks, chunk_size, min_chunk_size)

ChunkingStrategy == {"SENTENCE", "PARAGRAPH", "MIXED", "SMART", "LEARNED"}

\* TextChunker._apply_chunking_strategy
_apply_chunking_strategy(text, chunk_size, strategy) ==
    IF strategy = "SENTENCE"
    THEN [raised |-> "none", chunks |-> _chunk_by_sentences(text, chunk_size)]
    ELSE IF strategy = "PARAGRAPH"
    THEN [raised |-> "none", chunks |-> _chunk_by_paragraphs(text, chunk_size)]
    ELSE IF strategy = "MIXED"
    THEN [raised |-> "none", chunks |-> _mixed_chunking(text, chunk_size)]
    ELSE [raised |-> "ValueError", chunks |-> <<>>]

\* What _learned_chunking may return: the text-generation model's own split of
\* the text.
LearnedChunkings(text, chunk_size) == {_force_chunk(text, chunk_size), <<text>>}

\* TextChunker.chunk; model is self.learning_model, learned what
\* _learned_chunking returns when it is called.
chunk(model, raw, chunk_size, strategy, preserve_formatting, merge_strategy, min_chunk_size, learned) ==
    LET text == _preprocess_text(raw, preserve_formatting)
        size == IF chunk_size = 0 THEN max_length ELSE chunk_size
        split == IF strategy = "LEARNED" /\ model # None
                 THEN [raised |-> "none", chunks |-> learned]
                 ELSE _apply_chunking_strategy(text, size, strategy)
    IN  IF Strip(text) = <<>> THEN [raised |-> "none", chunks |-> <<>>]
        ELSE IF split.raised # "none" THEN split
        ELSE [raised |-> "none",
              chunks |-> _postprocess_chunks(split.chunks, size, merge_strategy,
                                             min_chunk_size)]

\* The k-th word of a text, n characters long.
Word(k, n) == [i \in 1..n |-> Letters[k]]

\* The text of the words of lengths lens, seps[k] between word k and word k + 1.
RECURSIVE TextFrom(_, _, _)
TextFrom(lens, seps, k) ==
    IF k > Len(lens) THEN <<>>
    ELSE Word(k, lens[k]) \o (IF k < Len(lens) THEN seps[k] ELSE <<>>)
             \o TextFrom(lens, seps, k + 1)

\* The input texts: up to MaxWords words, a space or a blank line between two
\* of them, and a text of white space only.
Texts ==
    {<<SP>>} \cup
    UNION {{TextFrom(lens, seps, 1) :
                lens \in [1..n -> 1..MaxWordLen],
                seps \in [1..(n - 1) -> {<<SP>>, <<NL, NL>>}]} : n \in 1..MaxWords}

ChunkSizes == {0, 3}        \* chunk_size; 0 stands for None: max_length is used
MinChunkSizes == {1, 2}     \* min_chunk_size

NoChunkCall == [text |-> <<>>, chunk_size |-> 0, strategy |-> "none",
                preserve_formatting |-> FALSE, merge_strategy |-> "none",
                min_chunk_size |-> 0, raised |-> "none", chunks |-> <<>>]

ChunkerIdle == learning_model = None /\ chunkCall = NoChunkCall

\* TextChunker.__init__: ml_model is None by default; a model that loads gives
\* a pipeline.  The arguments of the chunk() call to come are drawn here.
ChunkerStart ==
    /\ learning_model \in {None, "pipeline"}
    /\ chunkCall \in [text : Texts, chunk_size : ChunkSizes,
                       strategy : ChunkingStrategy,
                       preserve_formatting : BOOLEAN,
                       merge_strategy : {"aggressive", "conservative"},
                       min_chunk_size : MinChunkSizes,
                       raised : {"pending"}, chunks : {<<>>}]

\* await chunker.chunk(text, ...)
Chunk ==
    LET c == chunkCall
        size == IF c.chunk_size = 0 THEN max_length ELSE c.chunk_size
        text == _preprocess_text(c.text, c.preserve_formatting)
        called == c.strategy = "LEARNED" /\ learning_model # None
    IN  /\ c.raised = "pending"
        /\ \E learned \in IF called THEN LearnedChunkings(text, size) ELSE {<<>>} :
               LET r == chunk(learning_model, c.text, c.chunk_size, c.strategy,
                              c.preserve_formatting, c.merge_strategy,
                              c.min_chunk_size, learned)
               IN  chunkCall' = [c EXCEPT !.raised = r.raised, !.chunks = r.chunks]
        /\ UNCHANGED learning_model
        /\ UNCHANGED notChunkerVars

NextChunker == Chunk

\* The chunk size of the last call.
CallSize == IF chunkCall.chunk_size = 0 THEN max_length ELSE chunkCall.chunk_size

\* C12: for chunk size N, every chunk the chunker returns with the sentence,
\* paragraph or mixed strategy, after merge post-processing under either
\* policy, has at most N characters; a sentence longer than N is force-split
\* into ceil(len/N) pieces of at most N characters each.
C12_ChunkSizeBound ==
    /\ chunkCall.strategy \in {"SENTENCE", "PARAGRAPH", "MIXED"} =>
          \A k \in 1..Len(chunkCall.chunks) : Len(chunkCall.chunks[k]) <= CallSize
    /\ chunkCall.raised = "none" =>
          \A s \in {SplitSentences(chunkCall.text)[k] :
                        k \in 1..Len(SplitSentences(chunkCall.text))} :
              Len(s) > CallSize =>
                  /\ Len(_force_chunk(s, CallSize)) = (Len(s) + CallSize - 1) \div CallSize
                  /\ \A k \in 1..Len(_force_chunk(s, CallSize)) :
                         Len(_force_chunk(s, CallSize)[k]) <= CallSize

\* C13: with the learned strategy and no text-generation model configured,
\* chunk() does not raise and returns exactly the chunks of the mixed strategy
\* for the same input.
C13_LearnedFallsBackToMixed ==
    (chunkCall.strategy = "LEARNED" /\ learning_model = None
        /\ chunkCall.raised # "pending") =>
        LET mixed == chunk(None, chunkCall.text, chunkCall.chunk_size, "MIXED",
                           chunkCall.preserve_formatting, chunkCall.merge_strategy,
                           chunkCall.min_chunk_size, <<>>)
        IN  /\ chunkCall.raised = "none"
            /\ chunkCall.chunks = mixed.chunks

(***************************************************************************)
(* core/1/processor.py: DocumentProcessor._embed_chunks_safe               *)
(***************************************************************************)

MaxChunks == 3      \* chunks of one process_document call

ChunkTexts == {"x", "y"}
SourcePaths == {"doc1", "doc2"}

\* hashlib.sha256(chunk.encode()).hexdigest(): one digest per text.
sha256(piece) == <<"sha256", piece>>

\* f"emb:{text_hash}"
CacheKey(text_hash) == <<"emb", text_hash>>

\* embedder.aencode(chunk)
Embedding(piece) == <<"vec", piece>>

\* ChunkMetadata(source_path=..., text_hash=..., chunk_index=idx, ...).dict()
ChunkMetadata(source_path, text_hash, chunk_index) ==
    [source_path |-> source_path, text_hash |-> text_hash,
     chunk_index |-> chunk_index]

\* A cache entry; NoEntry is a key the cache does not hold.
NoEntry == [held |-> FALSE, vector |-> <<>>, meta |-> ChunkMetadata("", <<>>, 0)]
Entry(vector, meta) == [held |-> TRUE, vector |-> vector, meta |-> meta]

CacheKeys == {CacheKey(sha256(c)) : c \in ChunkTexts}

\* _get_from_cache(cache_key): the stored vector and metadata, or nothing.
_get_from_cache(c, cache_key) == c[cache_key]

\* _persist_embedding(vector, meta, cache_key): the vector and its metadata are
\* stored under the key when the cache is in use.
_persist_embedding(c, in_use, vector, meta, cache_key) ==
    IF in_use THEN [c EXCEPT ![cache_key] = Entry(vector, meta)] ELSE c

\* What the awaited calls of one pass may do.
EmbedOutcomes == {"ok", "cache_raises", "aencode_raises", "persist_raises"}

\* _embed_chunks_safe, one pass of the loop for chunks[idx]: a cache hit yields
\* the cached vector and metadata; otherwise the chunk is encoded, its
\* metadata built and persisted, and both are yielded; any exception skips
\* the chunk.
embed_chunk(c, cache_ok, piece, idx, source_path, outcome) ==
    LET text_hash == sha256(piece)
        cache_key == CacheKey(text_hash)
        cached == _get_from_cache(c, cache_key)
        vector == Embedding(piece)
        meta == ChunkMetadata(source_path, text_hash, idx)
        skipped == [yielded |-> FALSE, vector |-> <<>>, meta |-> NoEntry.meta,
                    cache |-> c]
    IN  IF cache_ok /\ outcome = "cache_raises" THEN skipped
        ELSE IF cache_ok /\ cached.held
        THEN [yielded |-> TRUE, vector |-> cached.vector, meta |-> cached.meta,
              cache |-> c]
        ELSE IF outcome = "aencode_raises" THEN skipped
        ELSE IF outcome = "persist_raises" THEN skipped
        ELSE [yielded |-> TRUE, vector |-> vector, meta |-> meta,
              cache |-> _persist_embedding(c, cache_ok, vector, meta, cache_key)]

NoEmbed == [pc |-> "idle", chunks |-> <<>>, source_path |-> "", idx |-> 0,
            embeddings |-> <<>>]

EmbedIdle ==
    /\ cache = [k \in CacheKeys |-> NoEntry]
    /\ cache_healthy = FALSE
    /\ embed = NoEmbed

\* A DocumentProcessor with an empty cache; health_status.cache as the last
\* health check left it.
EmbedStart ==
    /\ cache = [k \in CacheKeys |-> NoEntry]
    /\ cache_healthy \in BOOLEAN
    /\ embed = NoEmbed

\* process_document(chunks, source_path) reaches
\* `async for emb in self._embed_chunks_safe(chunks, source_path)`.
EmbedChunksSafe ==
    \E n \in 1..MaxChunks, source_path \in SourcePaths :
        \E chunks \in [1..n -> ChunkTexts] :
            /\ embed.pc = "idle"
            /\ embed' = [pc |-> "loop", chunks |-> chunks,
                         source_path |-> source_path, idx |-> 0,
                         embeddings |-> <<>>]
            /\ UNCHANGED <<cache, cache_healthy>>
            /\ UNCHANGED notEmbedVars

\* One pass of the loop; embeddings.append(emb) for what it yields.  at is the
\* pass that yielded the entry.
EmbedChunk ==
    \E outcome \in EmbedOutcomes :
        LET r == embed_chunk(cache, cache_healthy, embed.chunks[embed.idx + 1],
                             embed.idx, embed.source_path, outcome)
        IN  /\ embed.pc = "loop"
            /\ embed.idx < Len(embed.chunks)
            /\ outcome = "cache_raises" => cache_healthy
            /\ cache' = r.cache
            /\ embed' = [embed EXCEPT
                           !.idx = @ + 1,
                           !.embeddings =
                               IF r.yielded
                               THEN Append(@, [vector |-> r.vector, meta |-> r.meta,
                                               at |-> embed.idx])
                               ELSE @]
            /\ UNCHANGED cache_healthy
            /\ UNCHANGED notEmbedVars

\* The loop ends: the list of embeddings is what the call returns.
EmbedDone ==
    /\ embed.pc = "loop"
    /\ embed.idx >= Len(embed.chunks)
    /\ embed' = [embed EXCEPT !.pc = "idle"]
    /\ UNCHANGED <<cache, cache_healthy>>
    /\ UNCHANGED notEmbedVars

NextEmbed ==
    \/ EmbedChunksSafe
    \/ EmbedChunk
    \/ EmbedDone

\* C14: within one run the per-chunk results are in input chunk order and the
\* chunk index in each result's metadata is the position of its chunk in the
\* input list, also when chunks were skipped and when a result came from the
\* embedding cache.
C14_ChunkOrderAndIndex ==
    \A k \in 1..Len(embed.embeddings) :
        LET e == embed.embeddings[k]
        IN  /\ e.meta.chunk_index = e.at
            /\ e.meta.text_hash = sha256(embed.chunks[e.at + 1])
            /\ k > 1 => embed.embeddings[k - 1].at < e.at

(***************************************************************************)
(* core/tools/loader.py: FileLoader and its result cache                   *)
(***************************************************************************)

CACHE_LIMIT == 2    \* entries the cache keeps, 100 in the code
MaxPaths == 3       \* file paths loaded
MaxTime == 2        \* processing times recorded
MaxHits == 2        \* cache hits counted

FilePaths == 1..MaxPaths
ProcessingTimes == 1..MaxTime

\* The dict _cache in insertion order: per key its ProcessingResult, of which
\* the processing time is kept.
CacheEntry(file_path, processing_time) ==
    [file_path |-> file_path, processing_time |-> processing_time]

InCache(c, file_path) == \E k \in 1..Len(c) : c[k].file_path = file_path

\* self._cache[file_path] = result: a new key goes last, a held key keeps its
\* place.
CachePut(c, e) ==
    IF InCache(c, e.file_path)
    THEN [k \in 1..Len(c) |-> IF c[k].file_path = e.file_path THEN e ELSE c[k]]
    ELSE Append(c, e)

\* sorted(keys, key=processing_time)[0]: the first key, in dict order, of the
\* smallest processing time.
LeastUsed(c) ==
    Min({k \in 1..Len(c) : \A j \in 1..Len(c) :
                               c[k].processing_time <= c[j].processing_time})

Without(c, k) == SubSeq(c, 1, k - 1) \o SubSeq(c, k + 1, Len(c))

\* A mutant of clear_least_used_cache: the keys are sorted with reverse=True.
clear_most_used_cache(c) ==
    LET most == Min({k \in 1..Len(c) : \A j \in 1..Len(c) :
                                          c[j].processing_time <= c[k].processing_time})
    IN  IF Len(c) > CACHE_LIMIT
        THEN [cache |-> Without(c, most), evicted |-> <<c[most]>>]
        ELSE [cache |-> c, evicted |-> <<>>]

\* FileLoader.clear_least_used_cache
clear_least_used_cache(c) ==
    IF Len(c) > CACHE_LIMIT
    THEN [cache |-> Without(c, LeastUsed(c)), evicted |-> <<c[LeastUsed(c)]>>]
    ELSE [cache |-> c, evicted |-> <<>>]

LoadOutcomes == {"ok", "invalid", "extract_raises"}

\* FileLoader.load_file(file_path): a cached result is returned; an invalid
\* file and a failed extraction raise FileProcessingError; otherwise the
\* result is cached and the cache trimmed.
load_file(c, hits, file_path, processing_time, outcome) ==
    IF InCache(c, file_path)
    THEN [raised |-> FALSE, hit |-> TRUE, cache |-> c, hits |-> hits + 1,
          inserted |-> <<>>, evicted |-> <<>>]
    ELSE IF outcome # "ok"
    THEN [raised |-> TRUE, hit |-> FALSE, cache |-> c, hits |-> hits,
          inserted |-> <<>>, evicted |-> <<>>]
    ELSE LET result == CacheEntry(file_path, processing_time)
             cleared == clear_least_used_cache(CachePut(c, result))
         IN  [raised |-> FALSE, hit |-> FALSE, cache |-> cleared.cache,
              hits |-> hits, inserted |-> <<result>>, evicted |-> cleared.evicted]

NoLoad == [file_path |-> 0, raised |-> FALSE, hit |-> FALSE, size_before |-> 0,
           inserted |-> <<>>, evicted |-> <<>>]

LoaderStart ==
    /\ _cache = <<>>
    /\ _cache_hits = 0
    /\ loadCall = NoLoad

\* await loader.load_file(file_path)
LoadFileCached ==
    \E file_path \in FilePaths, processing_time \in ProcessingTimes,
       outcome \in LoadOutcomes :
        LET r == load_file(_cache, _cache_hits, file_path, processing_time, outcome)
        IN  /\ InCache(_cache, file_path) => (outcome = "ok" /\ processing_time = 1)
            /\ outcome # "ok" => processing_time = 1
            /\ _cache' = r.cache
            /\ r.hits <= MaxHits
            /\ _cache_hits' = r.hits
            /\ loadCall' = [file_path |-> file_path, raised |-> r.raised,
                            hit |-> r.hit, size_before |-> Len(_cache),
                            inserted |-> r.inserted, evicted |-> r.evicted]
            /\ UNCHANGED notLoaderVars

NextLoader == LoadFileCached

MAX_EXTRACT_SIZE == 2   \* bytes of one member, 10 MB in the code
MAX_TOTAL_SIZE == 5     \* bytes of all collected members, 100 MB in the code
MAX_FILES == 2          \* members collected, 1000 in the code
MaxMembers == 4         \* entries of an archive

\* An entry of an archive: a directory, a file whose extension is not in
\* TEXT_EXTENSIONS, or a text file of some size.
Member(kind, size) == [kind |-> kind, size |-> size]
Members ==
    {Member("dir", 0), Member("other", 1)}
        \cup {Member("text", s) : s \in {0, 1, MAX_EXTRACT_SIZE, MAX_EXTRACT_SIZE + 1}}

\* _is_text_file(filename)
_is_text_file(member) == member.kind = "text"

\* _stream_read(file_obj, max_size) iterates `async for chunk in file_obj`
\* over the file object zipfile and tarfile return, which is no asynchronous
\* iterator: the first step raises TypeError.
_stream_read(member) == [raised |-> TRUE, content |-> <<>>]

SizeWarning(i) == <<"too large", i>>
CountWarning == <<"Maximum number of files exceeded", MAX_FILES>>
TotalWarning == <<"Total size limit exceeded", MAX_TOTAL_SIZE>>
ErrorWarning(i) == <<"Error extracting", i>>

\* One pass of the loop of extract_from_zip / extract_from_tar over entry i
\* of the archive; stop: the loop was left with break.
extract_member(x, i) ==
    LET member == x.archive[i]
        read == _stream_read(member)
    IN  IF Len(x.files_list) >= MAX_FILES
        THEN [x EXCEPT !.warnings = Append(@, CountWarning), !.stop = TRUE]
        ELSE IF member.kind = "dir" \/ ~_is_text_file(member) THEN x
        ELSE IF member.size > MAX_EXTRACT_SIZE
        THEN [x EXCEPT !.warnings = Append(@, SizeWarning(i))]
        ELSE IF x.total_size + member.size > MAX_TOTAL_SIZE
        THEN [x EXCEPT !.total_size = @ + member.size,
                       !.warnings = Append(@, TotalWarning), !.stop = TRUE]
        ELSE IF read.raised
        THEN [x EXCEPT !.total_size = @ + member.size,
                       !.warnings = Append(@, ErrorWarning(i))]
        ELSE IF read.content # <<>>
        THEN [x EXCEPT !.total_size = @ + member.size,
                       !.contents = Append(@, read.content),
                       !.files_list = Append(@, i)]
        ELSE [x EXCEPT !.total_size = @ + member.size]

NoExtract == [pc |-> "idle", format |-> "none", archive |-> <<>>, i |-> 0,
              stop |-> FALSE, total_size |-> 0, files_list |-> <<>>,
              contents |-> <<>>, warnings |-> <<>>, raised |-> FALSE]

ArchiveStart == extract = NoExtract

\* await extract_from_zip(path) / extract_from_tar(path): the archive is read
\* and opened; one that is structurally invalid raises ArchiveError.
ExtractOpen ==
    \E format \in {"ZIP", "TAR"}, n \in 0..MaxMembers, valid \in BOOLEAN :
        \E archive \in [1..n -> Members] :
            /\ extract.pc = "idle"
            /\ ~valid => n = 0
            /\ extract' = [NoExtract EXCEPT
                              !.pc = IF valid THEN "loop" ELSE "done",
                              !.format = format, !.archive = archive,
                              !.raised = ~valid]
            /\ UNCHANGED notArchiveVars

\* One pass of the loop.
ExtractMember ==
    /\ extract.pc = "loop"
    /\ ~extract.stop
    /\ extract.i < Len(extract.archive)
    /\ extract' = [extract_member(extract, extract.i + 1) EXCEPT !.i = extract.i + 1]
    /\ UNCHANGED notArchiveVars

\* return ArchiveContent(text, files=files_list, metadata, warnings)
ExtractReturn ==
    /\ extract.pc = "loop"
    /\ extract.stop \/ extract.i >= Len(extract.archive)
    /\ extract' = [extract EXCEPT !.pc = "done"]
    /\ UNCHANGED notArchiveVars

\* The caller takes the result; the extractor is free for the next archive.
ExtractNext ==
    /\ extract.pc = "done"
    /\ extract' = NoExtract
    /\ UNCHANGED notArchiveVars

NextArchive ==
    \/ ExtractOpen
    \/ ExtractMember
    \/ ExtractReturn
    \/ ExtractNext

\* The text members of the archive being extracted.
TextMembers == {i \in 1..Len(extract.archive) : _is_text_file(extract.archive[i])}

InSeq(s, e) == \E k \in 1..Len(s) : s[k] = e

\* C16: extracting a valid zip or tar archive does not raise for a limit
\* violation and returns at most MAX_FILES members, none larger than
\* MAX_EXTRACT_SIZE; every oversized text member is excluded with a size
\* warning, and the file-count warning is recorded when, and only when, the
\* archive holds more than MAX_FILES text members.
C16_ArchiveLimitsAsWarnings ==
    (extract.pc = "done" /\ extract.format # "none" /\ extract.archive # <<>>) =>
        /\ ~extract.raised
        /\ Len(extract.files_list) <= MAX_FILES
        /\ \A k \in 1..Len(extract.files_list) :
               extract.archive[extract.files_list[k]].size <= MAX_EXTRACT_SIZE
        /\ \A i \in TextMembers :
               extract.archive[i].size > MAX_EXTRACT_SIZE =>
                   /\ ~InSeq(extract.files_list, i)
                   /\ InSeq(extract.warnings, SizeWarning(i))
        /\ InSeq(extract.warnings, CountWarning) <=> Cardinality(TextMembers) > MAX_FILES

(***************************************************************************)
(* core/1/processor.py: _health_check_context, _update_health_status,      *)
(* _check_component, process_document                                      *)
(***************************************************************************)

MaxTicks == 2                   \* advances of the clock
health_check_interval == 60     \* DocumentProcessor.__init__ default
SecondsPerDay == 86400          \* timedelta keeps days apart from seconds
probe_stop_after_attempt == 3   \* @retry(stop=stop_after_attempt(3)) of _check_component
stop_after_attempt == 3         \* @retry(stop=stop_after_attempt(3)) of process_document

Callers == {"a", "b"}
Components == <<"vector_store", "cache", "embedder", "extractor">>

\* What a dependency does on the successive calls made to it during one
\* probe: "ok" answers, "raise" raises.
ProbePlans == {<<"ok", "ok", "ok">>, <<"raise", "ok", "ok">>, <<"raise", "raise", "raise">>}

\* The seconds of datetime.utcnow() advance by one of these amounts.
ClockSteps == {1, health_check_interval, SecondsPerDay}

\* timedelta.seconds: the seconds within the day, the days are a field apart.
seconds(delta) == delta % SecondsPerDay

\* The body of _check_component(component) on one attempt: every exception
\* of the dependency is caught and False is returned.
check_component_body(outcome) ==
    IF outcome = "ok" THEN [raised |-> FALSE, value |-> TRUE]
    ELSE [raised |-> FALSE, value |-> FALSE]

\* tenacity's loop around _check_component: another attempt is made only when
\* the attempt raised and fewer than stop_after_attempt were made.
RECURSIVE Retrying(_, _)
Retrying(plan, attempt) ==
    LET r == check_component_body(plan[attempt])
    IN  IF r.raised /\ attempt < probe_stop_after_attempt
        THEN Retrying(plan, attempt + 1)
        ELSE [value |-> r.value /\ ~r.raised, attempts |-> attempt]

_check_component(plan) == Retrying(plan, 1)

\* HealthStatus(vector_store=..., cache=..., embedder=..., extractor=...,
\* last_checked=datetime.utcnow())
HealthStatus(healthy, last_checked) == [healthy |-> healthy, last_checked |-> last_checked]

\* _update_health_status() with the dependencies behaving as plans say.
_update_health_status(plans, utcnow) ==
    HealthStatus([k \in DOMAIN Components |-> _check_component(plans[k]).value], utcnow)

\* The test of _health_check_context.
refresh_due(utcnow, status) ==
    seconds(utcnow - status.last_checked) >= health_check_interval

\* finally: self.metrics['queue_size'].dec(), skipped when the attempt raised
process_document_finally_on_return(q, outcome) ==
    IF outcome = "raised" THEN q ELSE q - 1
\* finally: self.metrics['queue_size'].dec()
process_document_finally(q, outcome) == q - 1

NoPlans == [k \in DOMAIN Components |-> <<"ok", "ok", "ok">>]
\* The dependencies during one refresh: at most one of them fails.
RefreshPlans ==
    {[NoPlans EXCEPT ![k] = plan] : k \in DOMAIN Components, plan \in ProbePlans}

NoCall == [pc |-> "idle", attempt |-> 0, incs |-> 0, decs |-> 0,
           stale |-> FALSE, refreshed |-> FALSE]

DocIdle ==
    /\ now = 0
    /\ ticks = 0
    /\ health_status = HealthStatus([k \in DOMAIN Components |-> FALSE], 0)
    /\ probes = [plans |-> NoPlans, attempts |-> [k \in DOMAIN Components |-> 0]]
    /\ _processing_lock = "free"
    /\ queue_size = 0
    /\ calls = [c \in Callers |-> NoCall]

\* Time passes.
Tick ==
    \E d \in ClockSteps :
        /\ ticks < MaxTicks
        /\ now' = now + d
        /\ ticks' = ticks + 1
        /\ UNCHANGED <<health_status, probes, _processing_lock, queue_size, calls>>
        /\ UNCHANGED notDocVars

\* await process_document(chunks, source_path): the first attempt starts and
\* waits for the lock.
ProcessDocumentCall ==
    \E c \in Callers :
        /\ calls[c].pc = "idle"
        /\ calls' = [calls EXCEPT ![c] = [NoCall EXCEPT !.pc = "acquire", !.attempt = 1]]
        /\ UNCHANGED <<now, ticks, health_status, probes, _processing_lock, queue_size>>
        /\ UNCHANGED notDocVars

\* async with self._health_check_context(): the lock is taken, the snapshot
\* is refreshed when the test says so, and queue_size is incremented.
HealthCheckContext ==
    \E c \in Callers, plans \in RefreshPlans :
        LET due == refresh_due(now, health_status)
        IN  /\ calls[c].pc = "acquire"
            /\ _processing_lock = "free"
            /\ ~due => plans = probes.plans
            /\ _processing_lock' = c
            /\ health_status' = IF due THEN _update_health_status(plans, now)
                                ELSE health_status
            /\ probes' = IF due
                         THEN [plans |-> plans,
                               attempts |-> [k \in DOMAIN Components |->
                                                _check_component(plans[k]).attempts]]
                         ELSE probes
            /\ queue_size' = queue_size + 1
            /\ calls' = [calls EXCEPT ![c].pc = "body",
                                      ![c].incs = @ + 1,
                                      ![c].stale = now - health_status.last_checked
                                                       >= health_check_interval,
                                      ![c].refreshed = due]
            /\ UNCHANGED <<now, ticks>>
            /\ UNCHANGED notDocVars

\* The attempt returns (embeddings, entities) or raises; finally decrements
\* queue_size and the lock is released.  An attempt that raised is followed
\* by the next one until stop_after_attempt were made.
AttemptEnd ==
    \E c \in Callers, outcome \in {"returned", "raised"} :
        /\ calls[c].pc = "body"
        /\ _processing_lock = c
        /\ queue_size' = process_document_finally(queue_size, outcome)
        /\ _processing_lock' = "free"
        /\ calls' = [calls EXCEPT
               ![c].decs = @ + (queue_size - queue_size'),
               ![c].pc = IF outcome = "returned" THEN "returned"
                         ELSE IF calls[c].attempt < stop_after_attempt THEN "acquire"
                         ELSE "RetryError",
               ![c].attempt = IF outcome = "raised" /\ @ < stop_after_attempt
                              THEN @ + 1 ELSE @]
        /\ UNCHANGED <<now, ticks, health_status, probes>>
        /\ UNCHANGED notDocVars

NextDoc ==
    \/ Tick
    \/ ProcessDocumentCall
    \/ HealthCheckContext
    \/ AttemptEnd

InBody == {c \in Callers : calls[c].pc = "body"}
Ended(c) == calls[c].pc \in {"returned", "RetryError"}

\* C17: the health snapshot is refreshed only when at least
\* health_check_interval seconds have passed since the last refresh, and a
\* caller that finds the snapshot that old has it refreshed (once, under the
\* lock) before it proceeds.
C17_RefreshWhenStale ==
    \A c \in Callers :
        calls[c].incs > 0 /\ calls[c].pc = "body" =>
            (calls[c].refreshed <=> calls[c].stale)

\* C18: a failing probe is attempted up to probe_stop_after_attempt times
\* before the component is recorded as unhealthy, and a probe that fails
\* first and succeeds on a later attempt is recorded as healthy.
C18_ProbeRetried ==
    \A k \in DOMAIN Components :
        probes.attempts[k] > 0 =>
            /\ probes.attempts[k] <= probe_stop_after_attempt
            /\ (\E n \in 1..probe_stop_after_attempt : probes.plans[k][n] = "ok")
                   => health_status.healthy[k]
            /\ ~health_status.healthy[k] => probes.attempts[k] = probe_stop_after_attempt

\* C19: a process_document call makes at most stop_after_attempt attempts,
\* each attempt increments queue_size once and decrements it once, and the
\* gauge holds nothing of a call that has ended.
C19_AttemptsAndGauge ==
    /\ queue_size = Cardinality(InBody)
    /\ \A c \in Callers :
           /\ calls[c].attempt <= stop_after_attempt
           /\ calls[c].incs <= calls[c].attempt
           /\ Ended(c) => calls[c].incs = calls[c].attempt
                              /\ calls[c].decs = calls[c].attempt
           /\ calls[c].pc = "RetryError" => calls[c].attempt = stop_after_attempt

\* A call failed on all of its attempts while another call was served.
C19_Witness ==
    /\ calls["a"].pc = "RetryError"
    /\ calls["a"].decs = stop_after_attempt
    /\ calls["b"].pc = "returned"
    /\ queue_size = 0

\* C30: the lock is held only while the health snapshot is checked or
\* refreshed: a call that is in the body of process_document (extraction,
\* embedding) does not hold it, so another call can be in its body as well.
C30_LockNotHeldInBody ==
    \A c \in Callers : calls[c].pc = "body" => _processing_lock # c

(***************************************************************************)
(* llm/providers/base_llm.py: BaseLLM.initialize                           *)
(***************************************************************************)

MaxInitCalls == 2       \* initialize() calls of one task

\* The tasks that call initialize() on the one provider instance.
InitTasks == {"t1", "t2", "t3"}

\* Whether the provider's _async_init reaches a suspension point: DummyLLM
\* awaits asyncio.sleep(0.1), DeepSeekProvider only reads its config.
Providers == {"DummyLLM", "DeepSeekProvider"}
suspends(p) == p = "DummyLLM"

\* The scoped acquisition `async with llm.context()` of one more task.
NoScope == [pc |-> "none", body |-> "none", closes |-> 0,
            last_close |-> [initialized |-> FALSE, raised |-> FALSE, acted |-> FALSE]]

NoInitCall == [pc |-> "idle", n |-> 0]

\* BaseLLM.__init__: self._initialized = False
LlmIdle ==
    /\ llm = "DeepSeekProvider"
    /\ _initialized = FALSE
    /\ performed = 0
    /\ initCalls = [t \in InitTasks |-> NoInitCall]
    /\ scope = NoScope

LlmStart ==
    /\ llm \in Providers
    /\ _initialized = FALSE
    /\ performed = 0
    /\ initCalls = [t \in InitTasks |-> NoInitCall]
    /\ scope = NoScope

\* await self.initialize(), up to the first suspension point: the flag is
\* tested, and _async_init is entered when it is not set.  An _async_init
\* without a suspension point runs through at once.
Initialize ==
    \E t \in InitTasks, outcome \in {"ok", "raise"} :
        /\ initCalls[t].pc \in {"idle", "returned", "raised"}
        /\ initCalls[t].n < MaxInitCalls
        /\ IF _initialized
           THEN /\ outcome = "ok"
                /\ initCalls' = [initCalls EXCEPT ![t] = [pc |-> "returned", n |-> @.n + 1]]
                /\ UNCHANGED <<_initialized, performed>>
           ELSE IF suspends(llm)
           THEN /\ outcome = "ok"
                /\ initCalls' = [initCalls EXCEPT ![t] = [pc |-> "_async_init", n |-> @.n + 1]]
                /\ UNCHANGED <<_initialized, performed>>
           ELSE /\ initCalls' = [initCalls EXCEPT
                       ![t] = [pc |-> IF outcome = "ok" THEN "returned" ELSE "raised",
                               n |-> @.n + 1]]
                /\ _initialized' = (outcome = "ok")
                /\ performed' = IF outcome = "ok" THEN performed + 1 ELSE performed
        /\ UNCHANGED <<llm, scope>>
        /\ UNCHANGED notLlmVars

\* _async_init resumes and ends: self._initialized = True, or the exception
\* is logged and raised again.
AsyncInitEnd ==
    \E t \in InitTasks, outcome \in {"ok", "raise"} :
        /\ initCalls[t].pc = "_async_init"
        /\ initCalls' = [initCalls EXCEPT
               ![t].pc = IF outcome = "ok" THEN "returned" ELSE "raised"]
        /\ _initialized' = IF outcome = "ok" THEN TRUE ELSE _initialized
        /\ performed' = IF outcome = "ok" THEN performed + 1 ELSE performed
        /\ UNCHANGED <<llm, scope>>
        /\ UNCHANGED notLlmVars

NextLlm ==
    \/ Initialize
    \/ AsyncInitEnd

\* C20: however many initialize() calls are made on one provider, one after
\* another or overlapping, the provider's _async_init is carried out once.
C20_InitializeOnce == performed <= 1

MaxCloses == 2          \* close() calls after the scope was left

\* What _async_close does: its body is `pass` in BaseLLM and no provider
\* overrides it.
AsyncCloseOutcomes == {"ok"}

\* close(), never resetting the flag
close_keeps_initialized(initialized, outcome) ==
    [initialized |-> initialized, raised |-> FALSE, acted |-> initialized]
\* close(): with the flag set, _async_close is awaited and the flag reset; an
\* exception of _async_close is logged and the flag left as it is.
close(initialized, outcome) ==
    IF ~initialized THEN [initialized |-> FALSE, raised |-> FALSE, acted |-> FALSE]
    ELSE IF outcome = "ok" THEN [initialized |-> FALSE, raised |-> FALSE, acted |-> TRUE]
    ELSE [initialized |-> TRUE, raised |-> FALSE, acted |-> TRUE]

\* context(): await self.initialize(), up to its first suspension point.
ContextEnter ==
    \E outcome \in {"ok", "raise"} :
        /\ scope.pc = "none"
        /\ IF _initialized
           THEN /\ outcome = "ok"
                /\ scope' = [scope EXCEPT !.pc = "body"]
                /\ UNCHANGED <<_initialized, performed>>
           ELSE IF suspends(llm)
           THEN /\ outcome = "ok"
                /\ scope' = [scope EXCEPT !.pc = "_async_init"]
                /\ UNCHANGED <<_initialized, performed>>
           ELSE /\ scope' = [scope EXCEPT !.pc = IF outcome = "ok" THEN "body" ELSE "raised"]
                /\ _initialized' = (outcome = "ok")
                /\ performed' = IF outcome = "ok" THEN performed + 1 ELSE performed
        /\ UNCHANGED <<llm, initCalls>>
        /\ UNCHANGED notLlmVars

\* context(): the _async_init of its initialize() ends; on success the body
\* of the `async with` is entered.
ContextInitEnd ==
    \E outcome \in {"ok", "raise"} :
        /\ scope.pc = "_async_init"
        /\ scope' = [scope EXCEPT !.pc = IF outcome = "ok" THEN "body" ELSE "raised"]
        /\ _initialized' = IF outcome = "ok" THEN TRUE ELSE _initialized
        /\ performed' = IF outcome = "ok" THEN performed + 1 ELSE performed
        /\ UNCHANGED <<llm, initCalls>>
        /\ UNCHANGED notLlmVars

\* context(): the body returns or raises; finally: await self.close().
ContextExit ==
    \E body \in {"returned", "raised"}, outcome \in AsyncCloseOutcomes :
        /\ scope.pc = "body"
        /\ scope' = [scope EXCEPT !.pc = "exited", !.body = body,
                                   !.last_close = close(_initialized, outcome)]
        /\ _initialized' = close(_initialized, outcome).initialized
        /\ UNCHANGED <<llm, performed, initCalls>>
        /\ UNCHANGED notLlmVars

\* await llm.close(), called again after the scope was left.
Close ==
    \E outcome \in AsyncCloseOutcomes :
        /\ scope.pc = "exited"
        /\ scope.closes < MaxCloses
        /\ scope' = [scope EXCEPT !.closes = @ + 1,
                                   !.last_close = close(_initialized, outcome)]
        /\ _initialized' = close(_initialized, outcome).initialized
        /\ UNCHANGED <<llm, performed, initCalls>>
        /\ UNCHANGED notLlmVars

NextScope ==
    \/ Initialize
    \/ AsyncInitEnd
    \/ ContextEnter
    \/ ContextInitEnd
    \/ ContextExit
    \/ Close

\* C21: when the scope of `async with llm.context()` is left, by a return or
\* by an exception of the body, the provider is no longer marked initialized,
\* and a close() on a provider that is not initialized changes nothing and
\* does not raise.
C21_ClosedOnExit ==
    [][/\ (scope.pc = "body" /\ scope'.pc = "exited") =>
              ~_initialized' /\ ~scope'.last_close.raised
       /\ (scope.pc = "exited" /\ scope'.closes = scope.closes + 1) =>
              /\ ~scope'.last_close.raised
              /\ ~_initialized => ~_initialized' /\ ~scope'.last_close.acted]_vars

\* The body raised, the scope was left, and close() was called again on the
\* closed provider.
C21_Witness ==
    /\ scope.pc = "exited"
    /\ scope.body = "raised"
    /\ scope.closes = MaxCloses
    /\ ~scope.last_close.acted
    /\ ~_initialized

(***************************************************************************)
(* agents/project_analyzer/analyzer.py: get_ai_response, analyze_project   *)
(***************************************************************************)

MaxAsks == 3            \* get_ai_response calls

\* A text is the sequence of its words; failed tells a provider's failure
\* message from an answer.
Text(words, failed) == [words |-> words, failed |-> failed]
NoText == Text(<<>>, FALSE)

AiPrompts == {"p", "q"}
AI_PROVIDERS == {"deepseek", "gigachat", "ollama", "hf", "openrouter", "other"}

\* str.lower() on a word of a message.
lower(w) ==
    CASE w = "Error" -> "error"
      [] w = "DeepSeek" -> "deepseek"
      [] w = "GigaChat" -> "gigachat"
      [] w = "Ollama" -> "ollama"
      [] w = "HuggingFace" -> "huggingface"
      [] w = "OpenRouter" -> "openrouter"
      [] w = "AI" -> "ai"
      [] w = "API" -> "api"
      [] OTHER -> w

\* result.lower().startswith("error")
startswith_error(text) == text.words # <<>> /\ lower(text.words[1]) = "error"

\* The name a provider puts at the head of its messages.
ProviderName(prov) ==
    CASE prov = "deepseek" -> "DeepSeek"
      [] prov = "gigachat" -> "GigaChat"
      [] prov = "ollama" -> "Ollama"
      [] prov = "hf" -> "HuggingFace"
      [] prov = "openrouter" -> "OpenRouter"
      [] OTHER -> "Error"

\* What the request of a provider comes to: no API key configured, the
\* request raises inside ask_*, ask_* itself raises, it answers, or it
\* answers with an empty text.
AskOutcomes == {"no_key", "request_raises", "ask_raises", "answers", "empty"}

\* AIProvider.ask_<prov>(prompt) inside the try of get_ai_response.
ask(prov, prompt, outcome) ==
    IF prov = "other" THEN Text(<<"Error", ":", "Unknown", "AI", "provider">>, TRUE)
    ELSE CASE outcome = "no_key" /\ prov # "ollama" ->
                  Text(<<ProviderName(prov), "error", ":", "not", "configured">>, TRUE)
           [] outcome = "request_raises" \/ (outcome = "no_key" /\ prov = "ollama") ->
                  Text(<<ProviderName(prov), "API", "error", ":", "e">>, TRUE)
           [] outcome = "ask_raises" -> Text(<<"AI", "request", "failed", ":", "e">>, TRUE)
           [] outcome = "empty" -> Text(<<>>, FALSE)
           [] OTHER -> Text(<<"answer", "to", prompt>>, FALSE)

\* get_ai_response(prompt) on the cache table c: the text returned, the
\* table afterwards, and whether the provider was asked.
get_ai_response(c, prov, prompt, outcome) ==
    IF c[prompt] # NoText
    THEN [result |-> c[prompt], cache |-> c, asked |-> FALSE]
    ELSE LET result == ask(prov, prompt, outcome)
         IN  [result |-> result,
              cache |-> IF result.words # <<>> /\ ~startswith_error(result)
                        THEN [c EXCEPT ![prompt] = result] ELSE c,
              asked |-> TRUE]

NoAsk == [prompt |-> "", result |-> NoText, asked |-> FALSE, n |-> 0]

AiIdle ==
    /\ AI_PROVIDER = "other"
    /\ ai_cache = [p \in AiPrompts |-> NoText]
    /\ aiCall = NoAsk

\* The module is imported: AI_PROVIDER comes from the configuration and the
\* table ai_cache is empty.
AiStart ==
    /\ AI_PROVIDER \in AI_PROVIDERS
    /\ ai_cache = [p \in AiPrompts |-> NoText]
    /\ aiCall = NoAsk

\* await get_ai_response(prompt)
GetAiResponse ==
    \E prompt \in AiPrompts, outcome \in AskOutcomes :
        LET r == get_ai_response(ai_cache, AI_PROVIDER, prompt, outcome)
        IN  /\ aiCall.n < MaxAsks
            /\ ai_cache' = r.cache
            /\ aiCall' = [prompt |-> prompt, result |-> r.result, asked |-> r.asked,
                          n |-> aiCall.n + 1]
            /\ UNCHANGED AI_PROVIDER
            /\ UNCHANGED <<analysis, tmp_dirs>>
            /\ UNCHANGED notAnalyzerVars

\* C22: a failure message is never stored in the response cache, so a call
\* that follows a failed one with the same prompt asks the provider again.
C22_FailuresNotCached ==
    /\ \A p \in AiPrompts : ~ai_cache[p].failed
    /\ aiCall.n > 0 /\ aiCall.result.failed => aiCall.asked

MaxRuns == 2            \* analyze_project runs

\* tempfile.mkdtemp(prefix="proj_prev_" / "proj_current_") of run n
TmpDir(prefix, n) == [prefix |-> prefix, n |-> n]

\* unzip_to_tmp(zip_path): the directory is made, then the archive is
\* extracted into it; a failure of the extraction is logged and raised.
unzip_to_tmp(dirs, prefix, n, outcome) ==
    [tmp_dir |-> TmpDir(prefix, n), dirs |-> dirs \cup {TmpDir(prefix, n)},
     raised |-> outcome = "raises"]

\* shutil.rmtree(path, ignore_errors=True)
rmtree(dirs, path) == dirs \ {path}

UnzipOutcomes == {"ok", "raises"}
BodyOutcomes == {"returned", "raised"}

\* analyze_project(), run n, on the temp directories dirs: how it ended, the
\* temp directories afterwards, those this run made, and the extractions it
\* started.
analyze_project(dirs, n, prev_exists, cur_exists, unzipPrev, unzipCur, body) ==
    IF ~prev_exists \/ ~cur_exists
    THEN [result |-> "None", dirs |-> dirs, made |-> {}, unzips |-> 0]
    ELSE LET prev == unzip_to_tmp(dirs, "proj_prev_", n, unzipPrev)
             curr == unzip_to_tmp(prev.dirs, "proj_current_", n, unzipCur)
         IN  IF prev.raised
             THEN [result |-> "raised", dirs |-> prev.dirs,
                   made |-> {prev.tmp_dir}, unzips |-> 1]
             ELSE IF curr.raised
             THEN [result |-> "raised", dirs |-> curr.dirs,
                   made |-> {prev.tmp_dir, curr.tmp_dir}, unzips |-> 2]
             ELSE [result |-> IF body = "returned" THEN "report_path" ELSE "raised",
                   dirs |-> rmtree(rmtree(curr.dirs, prev.tmp_dir), curr.tmp_dir),
                   made |-> {prev.tmp_dir, curr.tmp_dir}, unzips |-> 2]

NoRun == [n |-> 0, missing |-> FALSE, result |-> "none", made |-> {}, unzips |-> 0]

AnalyzerIdle ==
    /\ AiIdle
    /\ analysis = NoRun
    /\ tmp_dirs = {}

AnalyzerStart ==
    /\ AiStart
    /\ analysis = NoRun
    /\ tmp_dirs = {}

\* await analyze_project()
AnalyzeProject ==
    \E prev_exists \in BOOLEAN, cur_exists \in BOOLEAN,
       unzipPrev \in UnzipOutcomes, unzipCur \in UnzipOutcomes, body \in BodyOutcomes :
        LET r == analyze_project(tmp_dirs, analysis.n + 1, prev_exists, cur_exists,
                                 unzipPrev, unzipCur, body)
        IN  /\ analysis.n < MaxRuns
            /\ tmp_dirs' = r.dirs
            /\ analysis' = [n |-> analysis.n + 1, missing |-> ~prev_exists \/ ~cur_exists,
                            result |-> r.result, made |-> r.made, unzips |-> r.unzips]
            /\ UNCHANGED <<AI_PROVIDER, ai_cache, aiCall>>
            /\ UNCHANGED notAnalyzerVars

NextAnalyzer ==
    \/ GetAiResponse
    \/ AnalyzeProject

\* C23: with an archive missing the run reports it, starts no extraction and
\* makes no temp directory; otherwise no temp directory the run made is left
\* when it ends, however it ends.
C23_TempDirsRemoved ==
    analysis.n > 0 =>
        /\ analysis.missing =>
               analysis.result = "None" /\ analysis.unzips = 0 /\ analysis.made = {}
        /\ analysis.made \cap tmp_dirs = {}

(***************************************************************************)
(* tools/embedder.py: Embedder.generate and the lru_cache of _encode_sync  *)
(***************************************************************************)

cache_size == 3         \* lru_cache(maxsize=cache_size), 2048 by default
MaxGenerates == 3       \* generate() calls
MaxTexts == 3           \* texts of one list

EmbedTexts == {"a", "bb", "ccc"}

\* _encode_sync_uncached(text), as the tests replace it: [float(len(text))]
_encode_sync_uncached(text) ==
    CASE text = "a" -> <<1>> [] text = "bb" -> <<2>> [] OTHER -> <<3>>

cache_enabled == cache_size > 0

\* functools.lru_cache around _encode_sync_uncached: lru holds the cached
\* texts, the least recently used first.
_encode_sync(e, text) ==
    IF \E k \in 1..Len(e.lru) : e.lru[k] = text
    THEN [e EXCEPT !.hits = @ + 1,
                   !.lru = Append(SelectSeq(@, LAMBDA t : t # text), text)]
    ELSE [e EXCEPT !.misses = @ + 1,
                   !.lru = IF cache_size = 0 THEN <<>>
                           ELSE IF Len(@) >= cache_size THEN Append(Tail(@), text)
                           ELSE Append(@, text)]

\* _generate_single(text): through the cache when it is enabled.
_generate_single(e, text) ==
    [e |-> IF cache_enabled THEN _encode_sync(e, text) ELSE e,
     result |-> <<_encode_sync_uncached(text)>>]

\* _generate_batch(texts, batch_size, show_progress): model.encode or
\* _encode_batch_hf in the executor, on the whole list.
_generate_batch(e, texts) ==
    [e |-> e, result |-> [k \in 1..Len(texts) |-> _encode_sync_uncached(texts[k])]]

\* generate(texts): a str goes to _generate_single, a list to _generate_batch.
generate_embeddings(e, is_str, texts) ==
    IF is_str THEN _generate_single(e, texts[1]) ELSE _generate_batch(e, texts)

NoEmbedder == [lru |-> <<>>, hits |-> 0, misses |-> 0]
NoGenerate == [is_str |-> TRUE, texts |-> <<>>, result |-> <<>>, n |-> 0]

\* Embedder(...) followed by clear_cache()
EmbedderStart ==
    /\ embedder = NoEmbedder
    /\ embedded = [t \in EmbedTexts |-> 0]
    /\ generated = NoGenerate

\* await embedder.generate(texts)
GenerateEmbeddings ==
    \E is_str \in BOOLEAN, n \in 1..MaxTexts :
        \E texts \in [1..n -> EmbedTexts] :
            LET r == generate_embeddings(embedder, is_str, texts)
            IN  /\ generated.n < MaxGenerates
                /\ is_str => n = 1
                /\ embedder' = r.e
                /\ embedded' = [t \in EmbedTexts |->
                                   embedded[t] + Cardinality({k \in 1..n : texts[k] = t})]
                /\ generated' = [is_str |-> is_str, texts |-> texts, result |-> r.result,
                                 n |-> generated.n + 1]
                /\ UNCHANGED notEmbedderVars

\* embedder.clear_cache()
ClearCache ==
    /\ generated.n > 0
    /\ embedder' = NoEmbedder
    /\ embedded' = [t \in EmbedTexts |-> 0]
    /\ generated' = NoGenerate
    /\ UNCHANGED notEmbedderVars

NextEmbedder ==
    \/ GenerateEmbeddings
    \/ ClearCache

RECURSIVE SumOver(_, _)
SumOver(f, S) ==
    IF S = {} THEN 0
    ELSE LET x == CHOOSE y \in S : TRUE IN f[x] + SumOver(f, S \ {x})

\* C24: since the cache was cleared, the first embedding of a text through
\* generate(), as a string or as an element of a list, counts one miss and
\* every repeated embedding of it one hit; the encodings come back in the
\* order of the input.
C24_EveryTextCounted ==
    /\ embedder.misses = Cardinality({t \in EmbedTexts : embedded[t] > 0})
    /\ embedder.hits = SumOver(embedded, EmbedTexts) - embedder.misses
    /\ generated.n > 0 =>
           generated.result = [k \in 1..Len(generated.texts) |->
                                  _encode_sync_uncached(generated.texts[k])]

(***************************************************************************)
(* llm/llm_router_pro.py: LLMRouterPro.ask                                 *)
(***************************************************************************)

MaxProAsks == 3         \* ask() calls

ProModels == {"yandex", "chatglm", "pavlov"}
ProPrompts == {"p1", "p2"}

\* What ask() returns: the model's answer to the prompt, the text for a model
\* that is not connected, or the text for an exception.
ProText(kind, model, prompt) == [kind |-> kind, model |-> model, prompt |-> prompt]

\* self.models[model].ask(prompt)
model_ask(model, prompt, outcome) ==
    IF outcome = "answers" THEN [raised |-> FALSE, text |-> ProText("answer", model, prompt)]
    ELSE [raised |-> TRUE, text |-> ProText("exception", model, prompt)]

\* self._cached_ask(prompt): _cached_ask(self, prompt, model) is called
\* without its argument model, which is a TypeError before the body runs.
_cached_ask(selected, prompt, outcome) ==
    [raised |-> TRUE, text |-> ProText("TypeError", selected, prompt)]

\* LLMRouterPro.ask(prompt, model): the text returned and the metrics after.
LLMRouterPro_ask(r, prompt, model, outcome) ==
    LET selected == IF model = "None" THEN r.default_model ELSE model
        call == IF r.cache_enabled THEN _cached_ask(selected, prompt, outcome)
                ELSE model_ask(selected, prompt, outcome)
    IN  IF selected \notin r.models
        THEN [result |-> ProText("not connected", selected, prompt), r |-> r]
        ELSE IF ~call.raised
        THEN [result |-> call.text,
              r |-> [r EXCEPT !.metrics[selected] = Append(@, TRUE)]]
        ELSE [result |-> ProText("error", selected, prompt),
              r |-> [r EXCEPT !.metrics[selected] = Append(@, FALSE)]]

NoProCall == [prompt |-> "", selected |-> "", outcome |-> "", before |-> 0,
              result |-> ProText("", "", ""), n |-> 0]

ProIdle ==
    /\ pro = [models |-> {}, cache_enabled |-> TRUE, default_model |-> "yandex",
              metrics |-> [m \in ProModels |-> <<>>]]
    /\ proCall = NoProCall

\* LLMRouterPro(config)
ProStart ==
    /\ \E models \in SUBSET ProModels, enabled \in BOOLEAN :
           pro = [models |-> models, cache_enabled |-> enabled,
                  default_model |-> "yandex", metrics |-> [m \in ProModels |-> <<>>]]
    /\ proCall = NoProCall

\* router.ask(prompt, model)
ProAsk ==
    \E prompt \in ProPrompts, model \in ProModels \cup {"None"},
       outcome \in {"answers", "raises"} :
        LET r == LLMRouterPro_ask(pro, prompt, model, outcome)
            selected == IF model = "None" THEN pro.default_model ELSE model
        IN  /\ proCall.n < MaxProAsks
            /\ pro' = r.r
            /\ proCall' = [prompt |-> prompt, selected |-> selected, outcome |-> outcome,
                           before |-> Len(pro.metrics[selected]),
                           result |-> r.result, n |-> proCall.n + 1]
            /\ UNCHANGED notProVars

\* router.switch_model(model_name, enable)
SwitchModel ==
    \E model_name \in ProModels, enable \in BOOLEAN :
        /\ pro' = [pro EXCEPT !.models = IF enable THEN @ \cup {model_name}
                                         ELSE @ \ {model_name}]
        /\ UNCHANGED proCall
        /\ UNCHANGED notProVars

NextPro ==
    \/ ProAsk
    \/ SwitchModel

\* C25: with caching enabled, ask(prompt) on a connected model that answers
\* returns that model's answer to the prompt and appends one successful
\* entry to the model's metrics.
C25_AskReturnsAnswer ==
    (/\ proCall.n > 0
     /\ pro.cache_enabled
     /\ proCall.selected \in pro.models
     /\ proCall.outcome = "answers") =>
        /\ proCall.result = ProText("answer", proCall.selected, proCall.prompt)
        /\ Len(pro.metrics[proCall.selected]) >= proCall.before + 1
        /\ pro.metrics[proCall.selected][proCall.before + 1]

(***************************************************************************)
(* llm/providers/fallback_dummy.py: FallbackDummyProvider                  *)
(***************************************************************************)

MaxDummyLen == 3        \* words of a prompt, texts of a get_embeddings call
DummyDim == 768         \* [0.0] * 768

DummyWords == {"a", "b", "c"}
DummyInputs == UNION {[1..n -> DummyWords] : n \in 0..MaxDummyLen}

\* The placeholder answer of generate_async.
Placeholder_DummyLLM == "[DummyLLM placeholder]"

\* FallbackDummyProvider._initialize_model_info().supports_embeddings
supports_embeddings == FALSE

\* FallbackDummyProvider.generate_async(prompt)
generate_async(prompt) == [raised |-> "no", value |-> Placeholder_DummyLLM, vectors |-> <<>>]

\* FallbackDummyProvider._get_embeddings_impl(texts)
_get_embeddings_impl(texts) == [k \in 1..Len(texts) |-> [i \in 1..DummyDim |-> 0]]

\* BaseLLM._normalize_embeddings(vectors): each vector divided by its norm,
\* a norm of 0 replaced by 1e-8; a zero vector stays a zero vector.
_normalize_vectors(vectors) ==
    [k \in 1..Len(vectors) |->
        IF \A i \in 1..DummyDim : vectors[k][i] = 0 THEN vectors[k]
        ELSE [i \in 1..DummyDim |-> IF vectors[k][i] = 0 THEN 0 ELSE 1]]

\* BaseLLM.get_embeddings(texts)
get_embeddings(texts) ==
    IF ~supports_embeddings
    THEN [raised |-> "NotImplementedError", value |-> "", vectors |-> <<>>]
    ELSE [raised |-> "no", value |-> "",
          vectors |-> _normalize_vectors(_get_embeddings_impl(texts))]

NoDummy == [op |-> "none", input |-> <<>>, pc |-> "idle",
            result |-> [raised |-> "no", value |-> "", vectors |-> <<>>]]

DummyIdle == dummy = NoDummy

\* A caller is about to ask the dummy provider.
DummyStart ==
    \E op \in {"generate_async", "get_embeddings"}, input \in DummyInputs :
        dummy = [NoDummy EXCEPT !.op = op, !.input = input, !.pc = "call"]

\* await dummy.generate_async(prompt) / await dummy.get_embeddings(texts)
DummyCall ==
    /\ dummy.pc = "call"
    /\ dummy' = [dummy EXCEPT !.pc = "done",
                              !.result = IF dummy.op = "generate_async"
                                         THEN generate_async(dummy.input)
                                         ELSE get_embeddings(dummy.input)]
    /\ UNCHANGED notDummyVars

NextDummy == DummyCall

\* C26: the dummy provider never fails: generate_async returns the
\* placeholder for any prompt, and get_embeddings returns one all-zero vector
\* of DummyDim entries per text.
C26_DummyAlwaysAnswers ==
    dummy.pc = "done" =>
        /\ dummy.result.raised = "no"
        /\ dummy.op = "generate_async" => dummy.result.value = Placeholder_DummyLLM
        /\ dummy.op = "get_embeddings" =>
               dummy.result.vectors = [k \in 1..Len(dummy.input) |->
                                          [i \in 1..DummyDim |-> 0]]

(***************************************************************************)
(* The specifications.                                                     *)
(***************************************************************************)

\* The subsystems a specification leaves alone stay as they start.
LaterIdle == ChunkerIdle /\ EmbedIdle /\ LoaderStart /\ ArchiveStart /\ DocIdle /\ LlmIdle /\ AnalyzerIdle /\ EmbedderStart /\ ProIdle /\ DummyIdle /\ WorkerIdle

StatusIdle ==
    /\ backend = [task_id |-> "task-1", state |-> "PENDING", info |-> NoDict,
                  result |-> PyNone]
    /\ statusResp = NoStatusResponse

NextRouter == Generate

InitRouter == RouterStart /\ ApiStart /\ JobStart /\ StatusIdle /\ RetrieverIdle /\ LaterIdle

SpecRouter == InitRouter /\ [][NextRouter]_vars

RouterIdle == default_provider = GIGACHAT /\ routerCall = NoRouterCall

\* The files, documents and batch upload endpoints.
InitApi == RouterIdle /\ ApiStart /\ JobStart /\ StatusIdle /\ RetrieverIdle /\ LaterIdle

SpecUpload == InitApi /\ [][NextUpload]_vars

\* The process and async-process endpoints, their clean-up and the task routes.
SpecProcess == InitApi /\ [][NextProcess]_vars

\* The endpoints behind the authentication dependencies.
SpecAuth == InitApi /\ [][NextAuth]_vars

InitJob == RouterIdle /\ ApiStart /\ JobStart /\ StatusIdle /\ RetrieverIdle /\ LaterIdle

\* The Celery worker and its two document-processing tasks.
SpecJob == InitJob /\ [][NextJob]_vars

InitStatus == RouterIdle /\ ApiStart /\ JobStart /\ StatusStart /\ RetrieverIdle /\ LaterIdle

\* The status endpoint over every result-backend entry.
SpecStatus == InitStatus /\ [][NextStatus]_vars

InitRetriever == RouterIdle /\ ApiStart /\ JobStart /\ StatusIdle /\ RetrieverStart /\ LaterIdle

\* One Retriever, its two files, and update_index calls one after another.
SpecRetriever == InitRetriever /\ [][NextRetriever]_vars

InitChunker ==
    RouterIdle /\ ApiStart /\ JobStart /\ StatusIdle /\ RetrieverIdle /\ ChunkerStart
    /\ EmbedIdle /\ LoaderStart /\ ArchiveStart /\ DocIdle /\ LlmIdle /\ AnalyzerIdle /\ EmbedderStart /\ ProIdle /\ DummyIdle /\ WorkerIdle

\* One TextChunker and chunk() calls on it.
SpecChunker == InitChunker /\ [][NextChunker]_vars

InitEmbed ==
    RouterIdle /\ ApiStart /\ JobStart /\ StatusIdle /\ RetrieverIdle /\ ChunkerIdle
    /\ EmbedStart /\ LoaderStart /\ ArchiveStart /\ DocIdle /\ LlmIdle /\ AnalyzerIdle /\ EmbedderStart /\ ProIdle /\ DummyIdle /\ WorkerIdle

\* One DocumentProcessor and its embedding runs, one after another.
SpecEmbed == InitEmbed /\ [][NextEmbed]_vars

InitLoader ==
    RouterIdle /\ ApiStart /\ JobStart /\ StatusIdle /\ RetrieverIdle /\ ChunkerIdle
    /\ EmbedIdle /\ LoaderStart /\ ArchiveStart /\ DocIdle /\ LlmIdle /\ AnalyzerIdle /\ EmbedderStart /\ ProIdle /\ DummyIdle /\ WorkerIdle

\* One FileLoader and load_file calls on it, one after another.
SpecLoader == InitLoader /\ [][NextLoader]_vars

InitArchive ==
    RouterIdle /\ ApiStart /\ JobStart /\ StatusIdle /\ RetrieverIdle /\ ChunkerIdle
    /\ EmbedIdle /\ LoaderStart /\ ArchiveStart /\ DocIdle /\ LlmIdle /\ AnalyzerIdle /\ EmbedderStart /\ ProIdle /\ DummyIdle /\ WorkerIdle

\* Archive extractions, one after another.
SpecArchive == InitArchive /\ [][NextArchive]_vars

InitDoc ==
    RouterIdle /\ ApiStart /\ JobStart /\ StatusIdle /\ RetrieverIdle /\ ChunkerIdle
    /\ EmbedIdle /\ LoaderStart /\ ArchiveStart /\ DocIdle /\ LlmIdle /\ AnalyzerIdle /\ EmbedderStart /\ ProIdle /\ DummyIdle /\ WorkerIdle

\* Concurrent process_document calls on one DocumentProcessor.
SpecDoc == InitDoc /\ [][NextDoc]_vars

InitLlm ==
    RouterIdle /\ ApiStart /\ JobStart /\ StatusIdle /\ RetrieverIdle /\ ChunkerIdle
    /\ EmbedIdle /\ LoaderStart /\ ArchiveStart /\ DocIdle /\ LlmStart /\ AnalyzerIdle /\ EmbedderStart /\ ProIdle /\ DummyIdle /\ WorkerIdle

\* initialize() calls of several tasks on one provider.
SpecLlm == InitLlm /\ [][NextLlm]_vars

\* A scoped acquisition beside the initialize() calls of other tasks.
SpecScope == InitLlm /\ [][NextScope]_vars

InitAnalyzer ==
    RouterIdle /\ ApiStart /\ JobStart /\ StatusIdle /\ RetrieverIdle /\ ChunkerIdle
    /\ EmbedIdle /\ LoaderStart /\ ArchiveStart /\ DocIdle /\ LlmIdle /\ AnalyzerStart /\ EmbedderStart /\ ProIdle /\ DummyIdle /\ WorkerIdle

\* Runs of the project analyzer and of its AI requests.
SpecAnalyzer == InitAnalyzer /\ [][NextAnalyzer]_vars

InitEmbedder ==
    RouterIdle /\ ApiStart /\ JobStart /\ StatusIdle /\ RetrieverIdle /\ ChunkerIdle
    /\ EmbedIdle /\ LoaderStart /\ ArchiveStart /\ DocIdle /\ LlmIdle /\ AnalyzerIdle
    /\ EmbedderStart /\ ProIdle /\ DummyIdle /\ WorkerIdle

\* generate() calls on one Embedder.
SpecEmbedder == InitEmbedder /\ [][NextEmbedder]_vars

InitPro ==
    RouterIdle /\ ApiStart /\ JobStart /\ StatusIdle /\ RetrieverIdle /\ ChunkerIdle
    /\ EmbedIdle /\ LoaderStart /\ ArchiveStart /\ DocIdle /\ LlmIdle /\ AnalyzerIdle
    /\ EmbedderStart /\ ProStart /\ DummyIdle /\ WorkerIdle

\* ask() calls on one LLMRouterPro.
SpecPro == InitPro /\ [][NextPro]_vars

InitDummy ==
    RouterIdle /\ ApiStart /\ JobStart /\ StatusIdle /\ RetrieverIdle /\ ChunkerIdle
    /\ EmbedIdle /\ LoaderStart /\ ArchiveStart /\ DocIdle /\ LlmIdle /\ AnalyzerIdle
    /\ EmbedderStart /\ ProIdle /\ DummyStart /\ WorkerIdle

\* Calls to the dummy provider.
SpecDummy == InitDummy /\ [][NextDummy]_vars

InitSearch ==
    RouterIdle /\ ApiStart /\ JobStart /\ StatusIdle /\ SearchStart /\ LaterIdle

\* retrieve calls between update_index calls on one Retriever.
SpecSearch == InitSearch /\ [][NextSearch]_vars

\* Two update_index calls under way at once on one Retriever.
SpecWriters == InitSearch /\ [][NextWriters]_vars

\* The asynchronous endpoint, the cleanup it schedules and the worker.
SpecAsync == InitApi /\ [][NextAsync]_vars
====
